---- MODULE Spec2Model ----
(***************************************************************************)
(* A model of FAISSVectorStore (zombiecursor/vectorstores/faiss_store.py): *)
(* the flat L2 index, the parallel metadata list, the two persisted files  *)
(* and the operations store, retrieve, search, semantic_search, delete,    *)
(* update and clear; and of CoderAgent (zombiecursor/agents/coder/agent.py)*)
(* with the SimpleMemoryStore (zombiecursor/core/memory.py) it records its *)
(* exchanges in.                                                           *)
(*                                                                         *)
(* Every method of the class is a pure operator over a record `s` holding  *)
(* the object's fields (so that update can call delete and store, as the   *)
(* code does); every action applies one method to the current fields.      *)
(***************************************************************************)
EXTENDS Integers, Sequences, FiniteSets, TLC

VARIABLES
    index,          \* self.index: the vectors of the IndexFlatL2, in insertion order
    metadata,       \* self.metadata: the list of metadata items
    index_file,     \* the file faiss.index
    metadata_file,  \* the file metadata.pkl
    now,            \* the reading datetime.now() gives next
    last,           \* the last call: its name, arguments and return value
    pre,            \* the fields and files as they were when the last call began
    agent,          \* the call of CoderAgent in progress and what it has delivered
    memory,         \* memory_store: its memory_data and the file memory.json
    tasks,          \* the calls of the store in progress that other calls can run between
    backup_dir,     \* the directory backup copies to: whether it exists, its two files
    at_backup,      \* history: the fields and files when backup last returned True
    limiter,        \* the RateLimitMiddleware: calls, period, clients; None before it is made
    clock,          \* the last value time.time() gave
    let_through     \* history: per client address, the times of the requests passed on

vars ==
    <<index, metadata, index_file, metadata_file, now, last, pre, agent, memory, tasks,
      backup_dir, at_backup, limiter, clock, let_through>>

-----------------------------------------------------------------------------
(* Bounds of the model *)

\* The clock readings are 0 .. MaxClock - 1; every store reads the clock once,
\* so a behaviour holds at most MaxClock stores.
MaxClock == 4

\* The same bound for the behaviours that also search.
MaxSearchClock == 3

\* self.embedding_dim, the dimension the embedding model reports.
embedding_dim == 2

\* The default of the parameter `limit` of search and semantic_search.
DefaultLimit == 10

-----------------------------------------------------------------------------
(* Values, keys, queries *)

\* A Python value: its type and its str(); a str and an int are different
\* values even when they print alike.
PyStr(t) == [tag |-> "str", repr |-> t]
PyInt(t) == [tag |-> "int", repr |-> t]
None == [tag |-> "NoneType", repr |-> "None"]

Keys == {"x", "y"}
Values == {PyStr("apple"), PyInt("7")}
Queries == {"apple", "pear"}
Limits == {-1, 1, 2, DefaultLimit}
\* The limits semantic_search is called with: one that cuts the list, and the default.
SemanticLimits == {2, DefaultLimit}

\* A rational number num/den with den > 0 (scores and thresholds).
Frac(n, d) == [num |-> n, den |-> d]
FracGeq(a, b) == a.num * b.den >= b.num * a.den
FracGt(a, b) == a.num * b.den > b.num * a.den
\* The default threshold 0.5 of semantic_search, and a lower one.
DefaultThreshold == Frac(1, 2)
Thresholds == {DefaultThreshold, Frac(1, 4)}

-----------------------------------------------------------------------------
(* The embedding model and the conversions between float32 and float *)

\* SentenceTransformer.encode: a fixed function from text to a float32 vector.
Encode(text) ==
    CASE text = "apple" -> <<1, 0>>
      [] text = "Apple" -> <<1, 2>>
      [] text = "7"     -> <<0, 2>>
      [] text = "pear"  -> <<1, 1>>
      [] OTHER          -> <<2, 2>>

\* _create_embedding without a failure of the model.
_create_embedding(text) == Encode(text)

\* embedding.flatten().tolist(): each float32 becomes a Python float (a double).
tolist(vec) == [i \in 1..Len(vec) |-> [float |-> vec[i]]]

\* np.array(item['embedding']).reshape(1, -1).astype('float32')
astype_float32(lst) == [i \in 1..Len(lst) |-> lst[i].float]

\* str(value), or value itself when it is a str
TextOf(value) == value.repr

-----------------------------------------------------------------------------
(* The object's fields as one record, and the files *)

NoFile == [exists |-> FALSE, data |-> <<>>]
File(data) == [exists |-> TRUE, data |-> data]

Self ==
    [index |-> index, metadata |-> metadata, index_file |-> index_file,
     metadata_file |-> metadata_file, now |-> now]

\* Positions of the items with key `key`, in list order (1-based).
Matching(md, key) == {i \in 1..Len(md) : md[i].key = key}
MinOf(S) == CHOOSE m \in S : \A x \in S : m <= x
\* The list without its element at position i (del self.metadata[item_index]).
RemoveAt(seq, i) == [j \in 1..(Len(seq) - 1) |-> IF j < i THEN seq[j] ELSE seq[j + 1]]

-----------------------------------------------------------------------------
(* The methods *)

\* The rows of a matrix one after the other.
RECURSIVE Flatten(_)
Flatten(rows) == IF rows = <<>> THEN <<>> ELSE Head(rows) \o Flatten(Tail(rows))

\* faiss.write_index of an IndexFlatL2: d, ntotal, then the ntotal * d floats.
write_index(idx) == <<embedding_dim, Len(idx)>> \o Flatten(idx)

\* faiss.read_index: the index the bytes describe; it raises when they are
\* not a whole index (a truncated file).
read_index(data) ==
    IF Len(data) < 2 THEN [raised |-> TRUE, index |-> <<>>]
    ELSE LET d == data[1]
             ntotal == data[2]
         IN IF Len(data) # 2 + ntotal * d THEN [raised |-> TRUE, index |-> <<>>]
            ELSE [raised |-> FALSE,
                  index |-> [i \in 1..ntotal |->
                                [j \in 1..d |-> data[2 + (i - 1) * d + j]]]]

\* pickle.dump of a list: the items between the opcodes PROTO and STOP.
pickle_dump(obj) == <<[opcode |-> "PROTO"]>> \o obj \o <<[opcode |-> "STOP"]>>

\* pickle.load: it raises when the stream ends before STOP (a truncated file).
pickle_load(data) ==
    IF Len(data) < 2 THEN [raised |-> TRUE, obj |-> <<>>]
    ELSE [raised |-> FALSE, obj |-> SubSeq(data, 2, Len(data) - 1)]

\* _save_index as it would be if it wrote the index file only.
_save_index_without_metadata(s) ==
    [s EXCEPT !.index_file = File(write_index(s.index))]

\* _save_index: write the index file, then the metadata file.
_save_index(s) ==
    [s EXCEPT !.index_file = File(write_index(s.index)),
              !.metadata_file = File(pickle_dump(s.metadata))]

\* store as it would be if it replaced the first item that has the key.
store_replacing(s, key, value) ==
    LET text == TextOf(value)
        embedding == _create_embedding(text)
        metadata_item ==
            [key |-> key, text |-> text, value |-> value,
             timestamp |-> s.now, embedding |-> tolist(embedding)]
    IN IF Matching(s.metadata, key) = {}
       THEN _save_index([s EXCEPT !.index = Append(s.index, embedding),
                                  !.metadata = Append(s.metadata, metadata_item),
                                  !.now = s.now + 1])
       ELSE LET i == MinOf(Matching(s.metadata, key))
            IN _save_index([s EXCEPT !.index[i] = embedding,
                                     !.metadata[i] = metadata_item,
                                     !.now = s.now + 1])

\* store: embed the text, add to the index, append the metadata item, save.
store(s, key, value) ==
    LET text == TextOf(value)
        embedding == _create_embedding(text)
        metadata_item ==
            [key |-> key, text |-> text, value |-> value,
             timestamp |-> s.now, embedding |-> tolist(embedding)]
    IN _save_index([s EXCEPT !.index = Append(s.index, embedding),
                             !.metadata = Append(s.metadata, metadata_item),
                             !.now = s.now + 1])

\* retrieve as it would be if it returned the item's text.
retrieve_text(s, key) ==
    IF Matching(s.metadata, key) = {} THEN None
    ELSE PyStr(s.metadata[MinOf(Matching(s.metadata, key))].text)

\* retrieve as it would be if it returned the last item with the key.
retrieve_last(s, key) ==
    IF Matching(s.metadata, key) = {} THEN None
    ELSE s.metadata[CHOOSE i \in Matching(s.metadata, key) :
                        \A j \in Matching(s.metadata, key) : j <= i].value

\* retrieve: the value of the first item with the key, or None.
retrieve(s, key) ==
    IF Matching(s.metadata, key) = {} THEN None
    ELSE s.metadata[MinOf(Matching(s.metadata, key))].value

\* The loop of _rebuild_index as it would be if it added in reverse order.
RECURSIVE AddAll_reversed(_, _)
AddAll_reversed(idx, items) ==
    IF items = <<>> THEN idx
    ELSE Append(AddAll_reversed(idx, Tail(items)), astype_float32(Head(items).embedding))

\* The loop of _rebuild_index: add every item's stored embedding, in list order.
RECURSIVE AddAll(_, _)
AddAll(idx, items) ==
    IF items = <<>> THEN idx
    ELSE AddAll(Append(idx, astype_float32(Head(items).embedding)), Tail(items))

\* _rebuild_index as it would be if it kept the old index instead of a new one.
_rebuild_index_keeping_old(s) ==
    _save_index([s EXCEPT !.index = AddAll(s.index, s.metadata)])

\* _rebuild_index: a new empty index, refilled from the metadata, then saved.
_rebuild_index(s) ==
    _save_index([s EXCEPT !.index = AddAll(<<>>, s.metadata)])

\* delete as it would be if it rebuilt and saved also when the key is absent.
delete_rebuilding_always(s, key) ==
    IF Matching(s.metadata, key) = {} THEN [s |-> _rebuild_index(s), ret |-> FALSE]
    ELSE LET item_index == MinOf(Matching(s.metadata, key))
         IN [s |-> _rebuild_index([s EXCEPT !.metadata = RemoveAt(s.metadata, item_index)]),
             ret |-> TRUE]

\* delete as it would be if its scan had no break: the last match is removed.
delete_last_match(s, key) ==
    IF Matching(s.metadata, key) = {} THEN [s |-> s, ret |-> FALSE]
    ELSE LET item_index == CHOOSE m \in Matching(s.metadata, key) :
                               \A x \in Matching(s.metadata, key) : x <= m
         IN [s |-> _rebuild_index([s EXCEPT !.metadata = RemoveAt(s.metadata, item_index)]),
             ret |-> TRUE]

\* delete: remove the first item with the key and rebuild the index.
\* Gives the fields after the call and the return value.
delete(s, key) ==
    IF Matching(s.metadata, key) = {} THEN [s |-> s, ret |-> FALSE]
    ELSE LET item_index == MinOf(Matching(s.metadata, key))
         IN [s |-> _rebuild_index([s EXCEPT !.metadata = RemoveAt(s.metadata, item_index)]),
             ret |-> TRUE]

\* update as it would be if it stored without deleting the old item.
update_without_delete(s, key, value) ==
    [s |-> store(s, key, value), ret |-> TRUE]

\* update as it would be if it replaced the old item where it stands.
update_in_place(s, key, value) ==
    IF Matching(s.metadata, key) = {} THEN [s |-> store(s, key, value), ret |-> TRUE]
    ELSE LET item_index == MinOf(Matching(s.metadata, key))
             stored == store(s, key, value)
             n == Len(stored.metadata)
         IN [s |-> _save_index(
                     [stored EXCEPT
                        !.metadata = [j \in 1..(n - 1) |->
                            IF j = item_index THEN stored.metadata[n] ELSE s.metadata[j]],
                        !.index = [j \in 1..(n - 1) |->
                            IF j = item_index THEN stored.index[n] ELSE s.index[j]]]),
             ret |-> TRUE]

\* update as it would be if it refused a key that is absent.
update_present_only(s, key, value) ==
    IF Matching(s.metadata, key) = {} THEN [s |-> s, ret |-> FALSE]
    ELSE [s |-> store(delete(s, key).s, key, value), ret |-> TRUE]

\* update: store when the key is absent, otherwise delete then store.
update(s, key, value) ==
    LET exists == \E i \in 1..Len(s.metadata) : s.metadata[i].key = key
    IN IF ~exists THEN [s |-> store(s, key, value), ret |-> TRUE]
       ELSE [s |-> store(delete(s, key).s, key, value), ret |-> TRUE]

\* The squared L2 distance IndexFlatL2 reports.
RECURSIVE SumSq(_, _, _)
SumSq(a, b, i) ==
    IF i = 0 THEN 0 ELSE (a[i] - b[i]) * (a[i] - b[i]) + SumSq(a, b, i - 1)
L2(a, b) == SumSq(a, b, embedding_dim)

\* index.search(query_embedding, k) for 0 < k <= ntotal: the k nearest vectors
\* by increasing distance, as (distance, idx) pairs with idx counted from 0.
\* The order among equal distances is the library's: every order is possible.
RECURSIVE Nearest(_, _, _, _)
Nearest(idx, q, remaining, k) ==
    IF k = 0 \/ remaining = {} THEN {<<>>}
    ELSE LET dmin == MinOf({L2(idx[p], q) : p \in remaining})
             best == {p \in remaining : L2(idx[p], q) = dmin}
         IN UNION {{<<[distance |-> dmin, idx |-> p - 1]>> \o h :
                        h \in Nearest(idx, q, remaining \ {p}, k - 1)} : p \in best}

\* index.search as it would be if it returned the first k vectors added.
index_search_oldest(idx, q, k) ==
    {[i \in 1..k |-> [distance |-> L2(idx[i], q), idx |-> i - 1]]}

index_search(idx, q, k) == Nearest(idx, q, 1..Len(idx), k)

\* float(1 / (1 + distance))
similarity(distance) == Frac(1, 1 + distance)

\* The loop of search as it would be if it put each new result first.
RECURSIVE Collect_reversed(_, _)
Collect_reversed(md, hits) ==
    IF hits = <<>> THEN <<>>
    ELSE LET hit == Head(hits)
             rest == Collect_reversed(md, Tail(hits))
         IN IF hit.idx >= 0 /\ hit.idx < Len(md)
            THEN LET item == md[hit.idx + 1]
                 IN rest \o <<[key |-> item.key, text |-> item.text, value |-> item.value,
                               timestamp |-> item.timestamp, embedding |-> item.embedding,
                               similarity_score |-> similarity(hit.distance),
                               distance |-> hit.distance]>>
            ELSE rest

\* The loop of search as it would be without the test of idx: a negative idx
\* reads from the end of the list, an idx past the end raises IndexError, and
\* the except clause of search returns [].
RECURSIVE Collect_unfiltered(_, _)
Collect_unfiltered(md, hits) ==
    IF \E i \in DOMAIN hits : hits[i].idx >= Len(md) THEN <<>>
    ELSE IF hits = <<>> THEN <<>>
    ELSE LET hit == Head(hits)
             item == md[IF hit.idx >= 0 THEN hit.idx + 1 ELSE Len(md) + 1 + hit.idx]
         IN <<[key |-> item.key, text |-> item.text, value |-> item.value,
               timestamp |-> item.timestamp, embedding |-> item.embedding,
               similarity_score |-> similarity(hit.distance),
               distance |-> hit.distance]>> \o Collect_unfiltered(md, Tail(hits))

\* The loop of search over the hits: every hit whose idx is a position of the
\* metadata list gives a copy of that item with the two scores added.
RECURSIVE Collect(_, _)
Collect(md, hits) ==
    IF hits = <<>> THEN <<>>
    ELSE LET hit == Head(hits)
             rest == Collect(md, Tail(hits))
         IN IF hit.idx >= 0 /\ hit.idx < Len(md)
            THEN LET item == md[hit.idx + 1]
                 IN <<[key |-> item.key, text |-> item.text, value |-> item.value,
                       timestamp |-> item.timestamp, embedding |-> item.embedding,
                       similarity_score |-> similarity(hit.distance),
                       distance |-> hit.distance]>> \o rest
            ELSE rest

\* search: the results the call can return (one per order of the index's ties).
\* A k that is not positive makes index.search raise, which search turns into [].
search(s, query, limit) ==
    IF s.metadata = <<>> \/ Len(s.index) = 0 THEN {<<>>}
    ELSE LET query_embedding == _create_embedding(query)
             k == IF limit < Len(s.index) THEN limit ELSE Len(s.index)
         IN IF k <= 0 THEN {<<>>}
            ELSE {Collect(s.metadata, hits) : hits \in index_search(s.index, query_embedding, k)}

\* The filter of semantic_search over the results of search.
RECURSIVE FilterByThreshold(_, _)
FilterByThreshold(results, threshold) ==
    IF results = <<>> THEN <<>>
    ELSE IF FracGeq(Head(results).similarity_score, threshold)
         THEN <<Head(results)>> \o FilterByThreshold(Tail(results), threshold)
         ELSE FilterByThreshold(Tail(results), threshold)

\* semantic_search as it would be if it compared with > instead of >=.
RECURSIVE FilterAbove(_, _)
FilterAbove(results, threshold) ==
    IF results = <<>> THEN <<>>
    ELSE IF FracGt(Head(results).similarity_score, threshold)
         THEN <<Head(results)>> \o FilterAbove(Tail(results), threshold)
         ELSE FilterAbove(Tail(results), threshold)

semantic_search_strict(results, threshold) == FilterAbove(results, threshold)

\* semantic_search, given what its call of search returned.
semantic_search(results, threshold) == FilterByThreshold(results, threshold)

\* clear as it would be if it replaced the index and kept the list.
clear_index_only(s) ==
    [s |-> [s EXCEPT !.index = <<>>,
                     !.index_file = NoFile, !.metadata_file = NoFile],
     ret |-> TRUE]

\* clear: a new empty index, an empty list, both files unlinked.
clear(s) ==
    [s |-> [s EXCEPT !.index = <<>>, !.metadata = <<>>,
                     !.index_file = NoFile, !.metadata_file = NoFile],
     ret |-> TRUE]

\* _load_index as it would be if it compared the two counts and started
\* empty when they differ.
_load_index_comparing_counts(s) ==
    IF s.index_file.exists /\ s.metadata_file.exists
    THEN LET read == read_index(s.index_file.data)
             loaded == pickle_load(s.metadata_file.data)
         IN IF read.raised \/ loaded.raised \/ Len(read.index) # Len(loaded.obj)
            THEN [s EXCEPT !.index = <<>>, !.metadata = <<>>]
            ELSE [s EXCEPT !.index = read.index, !.metadata = loaded.obj]
    ELSE [s EXCEPT !.index = <<>>, !.metadata = <<>>]

\* _load_index: read both files when both exist, otherwise start empty; an
\* exception of either read leaves a new empty index and an empty list.
_load_index(s) ==
    IF s.index_file.exists /\ s.metadata_file.exists
    THEN LET read == read_index(s.index_file.data)
             loaded == pickle_load(s.metadata_file.data)
         IN IF read.raised \/ loaded.raised
            THEN [s EXCEPT !.index = <<>>, !.metadata = <<>>]
            ELSE [s EXCEPT !.index = read.index, !.metadata = loaded.obj]
    ELSE [s EXCEPT !.index = <<>>, !.metadata = <<>>]

-----------------------------------------------------------------------------
(* The state machine: one call at a time, nothing fails *)

Call(op, key, value, query, limit, threshold, ret, found) ==
    [op |-> op, key |-> key, value |-> value, query |-> query, limit |-> limit,
     threshold |-> threshold, ret |-> ret, found |-> found]

\* The addresses _get_client_ip gives for the requests.
ClientIps == {"10.0.0.1", "10.0.0.2"}

\* A path that names no directory.
NoDirectory == [exists |-> FALSE, index_file |-> NoFile, metadata_file |-> NoFile]

\* The calls in progress: one store or delete ("writer"), two updates.
TaskIds == {"writer", "first", "second"}

\* A task that runs no call, and the locals of a call: the key and value it
\* was given, the embedding store computed, the item_index delete found, the
\* `exists` update computed, and how many items had the key when it began.
IdleTask ==
    [op |-> "none", pc |-> "idle", key |-> "", value |-> None, embedding |-> <<>>,
     item_index |-> 0, exists |-> FALSE, held |-> 0]

\* CoderAgent between two calls, after `requests` calls.
Idle(requests) ==
    [pc |-> "idle", method |-> "none", query |-> "", enable_memory |-> FALSE,
     answer |-> <<>>, llm_answered |-> FALSE, pending |-> <<>>,
     full_response |-> <<>>, yielded |-> <<>>, response |-> None,
     requests |-> requests]

\* __init__ in a directory that holds no files yet.
Constructed ==
    _load_index([index |-> <<>>, metadata |-> <<>>, index_file |-> NoFile,
                 metadata_file |-> NoFile, now |-> 0])

Init ==
    /\ index = Constructed.index
    /\ metadata = Constructed.metadata
    /\ index_file = Constructed.index_file
    /\ metadata_file = Constructed.metadata_file
    /\ now = Constructed.now
    /\ last = Call("init", "", None, "", 0, DefaultThreshold, None, <<>>)
    /\ pre = Constructed
    /\ agent = Idle(0)
    /\ memory = [memory_data |-> <<>>, memory_file |-> NoFile]
    /\ tasks = [t \in TaskIds |-> IdleTask]
    /\ backup_dir = NoDirectory
    /\ at_backup = None
    /\ limiter = None
    /\ clock = 0
    /\ let_through = [ip \in ClientIps |-> <<>>]

\* The fields and files become those of s.
Becomes(s) ==
    /\ index' = s.index
    /\ metadata' = s.metadata
    /\ index_file' = s.index_file
    /\ metadata_file' = s.metadata_file
    /\ now' = s.now
    /\ UNCHANGED <<agent, memory, tasks, backup_dir, at_backup, limiter, clock, let_through>>

StoreUpTo(bound) ==
    \E key \in Keys, value \in Values :
        /\ now < bound
        /\ Becomes(store(Self, key, value))
        /\ last' = Call("store", key, value, "", 0, DefaultThreshold, None, <<>>)
        /\ pre' = Self

Store == StoreUpTo(MaxClock)

Retrieve ==
    \E key \in Keys :
        /\ Becomes(Self)
        /\ last' = Call("retrieve", key, None, "", 0, DefaultThreshold,
                        retrieve(Self, key), <<>>)
        /\ pre' = Self

Search ==
    \E query \in Queries, limit \in Limits :
        \E results \in search(Self, query, limit) :
            /\ Becomes(Self)
            /\ last' = Call("search", "", None, query, limit, DefaultThreshold,
                            results, results)
            /\ pre' = Self

\* `found` keeps what the inner call of search returned.
SemanticSearch ==
    \E query \in Queries, limit \in SemanticLimits :
        \E results \in search(Self, query, limit), threshold \in Thresholds :
            /\ Becomes(Self)
            /\ last' = Call("semantic_search", "", None, query, limit, threshold,
                            semantic_search(results, threshold), results)
            /\ pre' = Self

Delete ==
    \E key \in Keys :
        /\ Becomes(delete(Self, key).s)
        /\ last' = Call("delete", key, None, "", 0, DefaultThreshold,
                        delete(Self, key).ret, <<>>)
        /\ pre' = Self

Update ==
    \E key \in Keys, value \in Values :
        /\ now < MaxClock
        /\ Becomes(update(Self, key, value).s)
        /\ last' = Call("update", key, value, "", 0, DefaultThreshold,
                        update(Self, key, value).ret, <<>>)
        /\ pre' = Self

Clear ==
    /\ Becomes(clear(Self).s)
    /\ last' = Call("clear", "", None, "", 0, DefaultThreshold, clear(Self).ret, <<>>)
    /\ pre' = Self

Next ==
    \/ Store
    \/ Retrieve
    \/ Delete
    \/ Update
    \/ Clear

Spec == Init /\ [][Next]_vars

\* The calls that fill and empty the store, together with the two searches.
SearchStore == StoreUpTo(MaxSearchClock)

NextSearch ==
    \/ SearchStore
    \/ Delete
    \/ Search
    \/ SemanticSearch

SpecSearch == Init /\ [][NextSearch]_vars

-----------------------------------------------------------------------------
(* hybrid_search *)

\* The bound on the clock for the behaviours that call hybrid_search.
MaxHybridClock == 2

\* The default of the parameter `semantic_weight`, as a fraction of ten.
DefaultWeightTenths == 7

HybridValues == {PyStr("Apple"), PyInt("7")}
HybridQueries == {"pear"}
\* keywords = None and keywords = [] both skip the keyword scan.
KeywordLists == {<<>>, <<"7">>, <<"APP", "7">>, <<"zzz">>}
Weights == {Frac(0, 10), Frac(DefaultWeightTenths, 10), Frac(10, 10)}
HybridLimits == {1, DefaultLimit}

\* str.lower()
Lower(str) ==
    CASE str = "Apple" -> "apple"
      [] str = "APP"   -> "app"
      [] OTHER         -> str

\* `keyword in text` for two str: keyword occurs in text as a substring.
Contains(text, keyword) ==
    \/ keyword = text
    \/ keyword = "app" /\ text = "apple"
    \/ keyword = "App" /\ text = "Apple"

\* sum(1 for keyword in keywords if keyword.lower() in text_lower)
keyword_matches(text, keywords) ==
    Cardinality({i \in DOMAIN keywords : Contains(Lower(text), Lower(keywords[i]))})

\* The keyword scan over all metadata items: a copy of every item with at
\* least one match, with keyword_score added.
RECURSIVE keyword_scan(_, _)
keyword_scan(items, keywords) ==
    IF items = <<>> THEN <<>>
    ELSE LET item == Head(items)
             matches == keyword_matches(item.text, keywords)
             rest == keyword_scan(Tail(items), keywords)
         IN IF matches > 0
            THEN <<item @@ [keyword_score |-> Frac(matches, Len(keywords))]>> \o rest
            ELSE rest

\* The position of the entry with key `key` in the dict combined_results
\* (kept as the list of its values in insertion order), or 0.
PositionOf(combined, key) ==
    IF \E i \in DOMAIN combined : combined[i].key = key
    THEN CHOOSE i \in DOMAIN combined : combined[i].key = key
    ELSE 0

\* combined_results[key] = value: in place when the key is there, else at the end.
DictSet(combined, key, value) ==
    IF PositionOf(combined, key) = 0 THEN Append(combined, value)
    ELSE [combined EXCEPT ![PositionOf(combined, key)] = value]

\* The loop over semantic_results.
RECURSIVE add_semantic(_, _)
add_semantic(combined, results) ==
    IF results = <<>> THEN combined
    ELSE LET result == Head(results)
             entry == [semantic_score |-> result.similarity_score,
                       keyword_score |-> Frac(0, 1)] @@ result
         IN add_semantic(DictSet(combined, result.key, entry), Tail(results))

\* The loop over keyword_results.
RECURSIVE add_keyword(_, _)
add_keyword(combined, results) ==
    IF results = <<>> THEN combined
    ELSE LET result == Head(results)
             at == PositionOf(combined, result.key)
         IN IF at # 0
            THEN add_keyword(
                     [combined EXCEPT ![at] =
                         [keyword_score |-> result.keyword_score] @@ combined[at]],
                     Tail(results))
            ELSE add_keyword(
                     Append(combined, result @@ [semantic_score |-> Frac(0, 1)]),
                     Tail(results))

\* The hybrid score as it would be with (1 + semantic_weight) for the keywords.
hybrid_score_sign_slip(weight, semantic, keyword) ==
    Frac(weight.num * semantic.num * keyword.den
             + (weight.den + weight.num) * keyword.num * semantic.den,
         weight.den * semantic.den * keyword.den)

\* semantic_weight * semantic_score + (1 - semantic_weight) * keyword_score
hybrid_score(weight, semantic, keyword) ==
    Frac(weight.num * semantic.num * keyword.den
             + (weight.den - weight.num) * keyword.num * semantic.den,
         weight.den * semantic.den * keyword.den)

with_hybrid_score(combined, weight) ==
    [i \in DOMAIN combined |->
        combined[i] @@ [hybrid_score |->
            hybrid_score(weight, combined[i].semantic_score, combined[i].keyword_score)]]

\* sorted(..., key = hybrid_score, reverse = True): stable, so equal scores
\* keep their order.
RECURSIVE sorted_by_hybrid_score(_)
sorted_by_hybrid_score(seq) ==
    IF seq = <<>> THEN <<>>
    ELSE LET n == Len(seq)
             front == sorted_by_hybrid_score(SubSeq(seq, 1, n - 1))
             x == seq[n]
             ahead == {i \in DOMAIN front : FracGeq(front[i].hybrid_score, x.hybrid_score)}
             k == IF ahead = {} THEN 0 ELSE CHOOSE m \in ahead : \A y \in ahead : y <= m
         IN SubSeq(front, 1, k) \o <<x>> \o SubSeq(front, k + 1, Len(front))

\* seq[:limit]
SliceTo(seq, limit) ==
    IF limit >= 0 THEN SubSeq(seq, 1, IF limit < Len(seq) THEN limit ELSE Len(seq))
    ELSE SubSeq(seq, 1, IF Len(seq) + limit > 0 THEN Len(seq) + limit ELSE 0)

\* hybrid_search, given what its call of search returned.
hybrid_search(s, semantic_results, keywords, semantic_weight, limit) ==
    LET keyword_results ==
            IF keywords # <<>> THEN keyword_scan(s.metadata, keywords) ELSE <<>>
        combined_results == add_keyword(add_semantic(<<>>, semantic_results), keyword_results)
        final_results == sorted_by_hybrid_score(with_hybrid_score(combined_results, semantic_weight))
    IN SliceTo(final_results, limit)

HybridCall(query, keywords, weight, limit, ret, found) ==
    [op |-> "hybrid_search", query |-> query, keywords |-> keywords,
     semantic_weight |-> weight, limit |-> limit, ret |-> ret, found |-> found]

HybridStore ==
    \E key \in Keys, value \in HybridValues :
        /\ now < MaxHybridClock
        /\ Becomes(store(Self, key, value))
        /\ last' = Call("store", key, value, "", 0, DefaultThreshold, None, <<>>)
        /\ pre' = Self

HybridSearch ==
    \E query \in HybridQueries, keywords \in KeywordLists, weight \in Weights,
       limit \in HybridLimits :
        \E results \in search(Self, query, limit) :
            /\ Becomes(Self)
            /\ last' = HybridCall(query, keywords, weight, limit,
                                  hybrid_search(Self, results, keywords, weight, limit),
                                  results)
            /\ pre' = Self

NextHybrid ==
    \/ HybridStore
    \/ HybridSearch

SpecHybrid == Init /\ [][NextHybrid]_vars

-----------------------------------------------------------------------------
(* The reads, with what they leave of the stored items, and get_stats *)

\* The bound on the clock for the behaviours of the reads.
MaxReadClock == 2

\* item = self.metadata[i] without the copy: the stored dict itself gets the fields.
alias_then_set(md, i, fields) ==
    [stored |-> [md EXCEPT ![i] = fields @@ md[i]], item |-> fields @@ md[i]]

\* item = self.metadata[i].copy() followed by item[...] = ... for `fields`,
\* with i counted from 1: a new dict gets the fields, the stored one is as it was.
copy_then_set(md, i, fields) == [stored |-> md, item |-> fields @@ md[i]]

\* What search calls index.search with, and what comes back: no call (and no
\* hits) on an empty store, an exception (caught: no hits) for a k <= 0.
search_hits(s, query, limit) ==
    IF s.metadata = <<>> \/ Len(s.index) = 0 THEN {<<>>}
    ELSE LET k == IF limit < Len(s.index) THEN limit ELSE Len(s.index)
         IN IF k <= 0 THEN {<<>>}
            ELSE index_search(s.index, _create_embedding(query), k)

\* self.metadata after the loop of search over the hits.
RECURSIVE search_leaves(_, _)
search_leaves(md, hits) ==
    IF hits = <<>> THEN md
    ELSE LET hit == Head(hits)
         IN IF hit.idx >= 0 /\ hit.idx < Len(md)
            THEN search_leaves(
                     copy_then_set(md, hit.idx + 1,
                         [similarity_score |-> similarity(hit.distance),
                          distance |-> hit.distance]).stored,
                     Tail(hits))
            ELSE search_leaves(md, Tail(hits))

\* self.metadata after the keyword scan of hybrid_search from position i on.
RECURSIVE keyword_scan_leaves(_, _, _)
keyword_scan_leaves(md, keywords, i) ==
    IF i > Len(md) THEN md
    ELSE LET matches == keyword_matches(md[i].text, keywords)
         IN IF matches > 0
            THEN keyword_scan_leaves(
                     copy_then_set(md, i,
                         [keyword_score |-> Frac(matches, Len(keywords))]).stored,
                     keywords, i + 1)
            ELSE keyword_scan_leaves(md, keywords, i + 1)

\* self.metadata after hybrid_search: after its search and its keyword scan.
hybrid_search_leaves(md, hits, keywords) ==
    IF keywords # <<>> THEN keyword_scan_leaves(search_leaves(md, hits), keywords, 1)
    ELSE search_leaves(md, hits)

\* The size of a file, in items written.
FileSize(file) == IF file.exists THEN Len(file.data) ELSE 0

\* get_stats
get_stats(s) ==
    LET timestamps == {s.metadata[i].timestamp : i \in DOMAIN s.metadata}
    IN [total_items |-> Len(s.metadata),
        index_size |-> Len(s.index),
        embedding_dimension |-> embedding_dim,
        model_name |-> "settings.embedding_model",
        index_file_size_bytes |-> FileSize(s.index_file),
        metadata_file_size_bytes |-> FileSize(s.metadata_file),
        oldest_item |-> IF timestamps = {} THEN None ELSE MinOf(timestamps),
        newest_item |-> IF timestamps = {} THEN None
                        ELSE CHOOSE m \in timestamps : \A x \in timestamps : x <= m,
        storage_path |-> "settings.vector_store_path"]

ReadStore ==
    \E key \in Keys, value \in HybridValues :
        /\ now < MaxReadClock
        /\ Becomes(store(Self, key, value))
        /\ last' = Call("store", key, value, "", 0, DefaultThreshold, None, <<>>)
        /\ pre' = Self

ReadSearch ==
    \E query \in Queries, limit \in Limits :
        \E hits \in search_hits(Self, query, limit) :
            /\ Becomes([Self EXCEPT !.metadata = search_leaves(metadata, hits)])
            /\ last' = Call("search", "", None, query, limit, DefaultThreshold,
                            Collect(metadata, hits), Collect(metadata, hits))
            /\ pre' = Self

ReadSemanticSearch ==
    \E query \in Queries, limit \in SemanticLimits :
        \E hits \in search_hits(Self, query, limit), threshold \in Thresholds :
            /\ Becomes([Self EXCEPT !.metadata = search_leaves(metadata, hits)])
            /\ last' = Call("semantic_search", "", None, query, limit, threshold,
                            semantic_search(Collect(metadata, hits), threshold),
                            Collect(metadata, hits))
            /\ pre' = Self

ReadHybridSearch ==
    \E query \in HybridQueries, keywords \in KeywordLists, weight \in Weights,
       limit \in HybridLimits :
        \E hits \in search_hits(Self, query, limit) :
            /\ Becomes([Self EXCEPT
                           !.metadata = hybrid_search_leaves(metadata, hits, keywords)])
            /\ last' = HybridCall(query, keywords, weight, limit,
                           hybrid_search(Self, Collect(metadata, hits), keywords,
                                         weight, limit),
                           Collect(metadata, hits))
            /\ pre' = Self

GetStats ==
    /\ Becomes(Self)
    /\ last' = Call("get_stats", "", None, "", 0, DefaultThreshold, get_stats(Self), <<>>)
    /\ pre' = Self

NextRead ==
    \/ ReadStore
    \/ Clear
    \/ Retrieve
    \/ ReadSearch
    \/ ReadSemanticSearch
    \/ ReadHybridSearch
    \/ GetStats

SpecRead == Init /\ [][NextRead]_vars

-----------------------------------------------------------------------------
(* CoderAgent.run and run_stream, with memory_store *)

\* The number of calls of the agent in a behaviour.
MaxRequests == 2

AgentQueries == {"fix", "explain"}

\* What the LLM answers, as the chunks it streams; chat returns them joined.
Answers == {<<"Arrey">>, <<"Arrey", "Shawon">>}

\* How _save_memory ends: the file is written; open fails and the file is as
\* it was; json.dump fails after open has truncated the file.
SaveOutcomes == {"saved", "open_fails", "dump_fails"}

\* hash(request.query)
Hash(query) == CASE query = "fix" -> 1 [] query = "explain" -> 2 [] OTHER -> 0

AgentKey(query) == [prefix |-> "agent_request_", hash |-> Hash(query)]

\* f"Arrey Shawon, kichu problem hoyeche! Error: {str(e)}"
ErrorChunk == "Arrey Shawon, kichu problem hoyeche! Error: "

\* memory_data[key] = value, as a list of pairs in the order of the dict.
RECURSIVE MemorySet(_, _, _)
MemorySet(data, key, value) ==
    IF data = <<>> THEN <<[key |-> key, value |-> value]>>
    ELSE IF Head(data).key = key THEN <<[key |-> key, value |-> value]>> \o Tail(data)
    ELSE <<Head(data)>> \o MemorySet(Tail(data), key, value)

\* SimpleMemoryStore._save_memory: every exception is logged and dropped.
_save_memory(m, outcome) ==
    CASE outcome = "saved" -> [m EXCEPT !.memory_file = File(m.memory_data)]
      [] outcome = "open_fails" -> m
      [] outcome = "dump_fails" -> [m EXCEPT !.memory_file = File(<<>>)]

\* SimpleMemoryStore.store: it raises nothing.
memory_store_store(m, key, value, outcome) ==
    _save_memory([m EXCEPT !.memory_data = MemorySet(m.memory_data, key, value)], outcome)

Exchange(query, response, time) ==
    [query |-> query, response |-> response, timestamp |-> time]

\* AgentResponse
AgentResponse(content, error) == [content |-> content, error |-> error]

StoreUnchanged ==
    UNCHANGED <<index, metadata, index_file, metadata_file, now, last, pre, tasks,
                backup_dir, at_backup, limiter, clock, let_through>>

\* run up to the end of self.llm.chat: the answer, or the exception that
\* the except clause turns into a response with error set.
RunChat ==
    \E query \in AgentQueries, enable_memory \in BOOLEAN :
        /\ agent.pc = "idle"
        /\ agent.requests < MaxRequests
        /\ \/ \E answer \in Answers :
                agent' = [agent EXCEPT !.method = "run", !.query = query,
                              !.enable_memory = enable_memory,
                              !.answer = answer, !.llm_answered = TRUE,
                              !.requests = @ + 1,
                              !.pc = IF enable_memory THEN "run_memory" ELSE "run_return"]
           \/ agent' = [agent EXCEPT !.method = "run", !.query = query,
                            !.enable_memory = enable_memory,
                            !.requests = @ + 1,
                            !.response = AgentResponse(<<ErrorChunk>>, "chat"),
                            !.pc = "done"]
        /\ UNCHANGED memory
        /\ StoreUnchanged

\* run: await memory_store.store(...)
RunMemory ==
    \E outcome \in SaveOutcomes :
        /\ agent.pc = "run_memory"
        /\ memory' = memory_store_store(memory, AgentKey(agent.query),
                         Exchange(agent.query, agent.answer, agent.requests), outcome)
        /\ agent' = [agent EXCEPT !.pc = "run_return"]
        /\ StoreUnchanged

\* run: return AgentResponse(content=response, ...)
RunReturn ==
    /\ agent.pc = "run_return"
    /\ agent' = [agent EXCEPT !.response = AgentResponse(agent.answer, None),
                              !.pc = "done"]
    /\ UNCHANGED memory
    /\ StoreUnchanged

\* run_stream up to the first self.llm.chat_stream(messages)
RunStream ==
    \E query \in AgentQueries, enable_memory \in BOOLEAN, answer \in Answers :
        /\ agent.pc = "idle"
        /\ agent.requests < MaxRequests
        /\ agent' = [agent EXCEPT !.method = "run_stream", !.query = query,
                         !.enable_memory = enable_memory,
                         !.answer = answer, !.pending = answer,
                         !.requests = @ + 1, !.pc = "streaming"]
        /\ UNCHANGED memory
        /\ StoreUnchanged

\* async for chunk in self.llm.chat_stream(messages): yield chunk
StreamYield ==
    /\ agent.pc = "streaming"
    /\ agent.pending # <<>>
    /\ agent' = [agent EXCEPT !.yielded = Append(@, Head(agent.pending)),
                              !.pending = Tail(@)]
    /\ UNCHANGED memory
    /\ StoreUnchanged

\* The first stream raises before its end: the except clause yields the error.
StreamRaises ==
    /\ agent.pc = "streaming"
    /\ agent.pending # <<>>
    /\ agent' = [agent EXCEPT !.yielded = Append(@, ErrorChunk),
                              !.pending = <<>>, !.pc = "done"]
    /\ UNCHANGED memory
    /\ StoreUnchanged

\* The first stream is exhausted: the LLM has answered. With enable_memory the
\* agent calls self.llm.chat_stream(messages) a second time.
StreamEnds ==
    /\ agent.pc = "streaming"
    /\ agent.pending = <<>>
    /\ \/ /\ ~agent.enable_memory
          /\ agent' = [agent EXCEPT !.llm_answered = TRUE, !.pc = "done"]
       \/ /\ agent.enable_memory
          /\ \E again \in Answers :
                agent' = [agent EXCEPT !.llm_answered = TRUE, !.pending = again,
                                       !.full_response = <<>>, !.pc = "collecting"]
    /\ UNCHANGED memory
    /\ StoreUnchanged

\* async for chunk in self.llm.chat_stream(messages): full_response += chunk
CollectChunk ==
    /\ agent.pc = "collecting"
    /\ agent.pending # <<>>
    /\ agent' = [agent EXCEPT !.full_response = Append(@, Head(agent.pending)),
                              !.pending = Tail(@)]
    /\ UNCHANGED memory
    /\ StoreUnchanged

\* The second stream raises: the except clause of run_stream yields the error.
CollectRaises ==
    /\ agent.pc = "collecting"
    /\ agent.pending # <<>>
    /\ agent' = [agent EXCEPT !.yielded = Append(@, ErrorChunk),
                              !.pending = <<>>, !.pc = "done"]
    /\ UNCHANGED memory
    /\ StoreUnchanged

\* run_stream: await memory_store.store(...), and the generator ends.
StreamMemory ==
    \E outcome \in SaveOutcomes :
        /\ agent.pc = "collecting"
        /\ agent.pending = <<>>
        /\ memory' = memory_store_store(memory, AgentKey(agent.query),
                         Exchange(agent.query, agent.full_response, agent.requests),
                         outcome)
        /\ agent' = [agent EXCEPT !.pc = "done"]
        /\ StoreUnchanged

\* The caller has what the agent delivered; the agent is ready for the next call.
AgentDone ==
    /\ agent.pc = "done"
    /\ agent' = Idle(agent.requests)
    /\ UNCHANGED memory
    /\ StoreUnchanged

NextAgent ==
    \/ RunChat
    \/ RunMemory
    \/ RunReturn
    \/ RunStream
    \/ StreamYield
    \/ StreamRaises
    \/ StreamEnds
    \/ CollectChunk
    \/ CollectRaises
    \/ StreamMemory
    \/ AgentDone

SpecAgent == Init /\ [][NextAgent]_vars

-----------------------------------------------------------------------------
(* The searches on the inputs of the boundary: an empty query, a limit <= 0 *)

\* The bound on the clock for the behaviours of the boundary inputs.
MaxBoundaryClock == 2

BoundaryQueries == {"", "pear"}
BoundaryLimits == {-1, 0, 1, 2}
BoundaryKeywordLists == {<<>>, <<"7">>}

\* What search does with its inputs: the calls it makes of index.search (the
\* query vector and k of each), the exception it lets reach its caller (None:
\* the except clause catches every exception and returns []), and the result.
\* index.search raises for a k <= 0.
search_outcome(s, query, limit) ==
    IF s.metadata = <<>> \/ Len(s.index) = 0
    THEN {[ret |-> <<>>, raised |-> None, index_layer |-> <<>>]}
    ELSE LET query_embedding == _create_embedding(query)
             k == IF limit < Len(s.index) THEN limit ELSE Len(s.index)
         IN {[ret |-> Collect(s.metadata, hits), raised |-> None,
              index_layer |-> <<[query_embedding |-> query_embedding, k |-> k]>>] :
                 hits \in IF k <= 0 THEN {<<>>}
                          ELSE index_search(s.index, query_embedding, k)}

BoundaryStore ==
    \E key \in Keys, value \in HybridValues :
        /\ now < MaxBoundaryClock
        /\ Becomes(store(Self, key, value))
        /\ last' = Call("store", key, value, "", 0, DefaultThreshold, None, <<>>)
        /\ pre' = Self

BoundarySearch ==
    \E query \in BoundaryQueries, limit \in BoundaryLimits :
        \E out \in search_outcome(Self, query, limit) :
            /\ Becomes(Self)
            /\ last' = [raised |-> out.raised, index_layer |-> out.index_layer]
                         @@ Call("search", "", None, query, limit, DefaultThreshold,
                                 out.ret, out.ret)
            /\ pre' = Self

BoundarySemanticSearch ==
    \E query \in BoundaryQueries, threshold \in Thresholds, limit \in BoundaryLimits :
        \E out \in search_outcome(Self, query, limit) :
            /\ Becomes(Self)
            /\ last' = [raised |-> out.raised, index_layer |-> out.index_layer]
                         @@ Call("semantic_search", "", None, query, limit, threshold,
                                 semantic_search(out.ret, threshold), out.ret)
            /\ pre' = Self

BoundaryHybridSearch ==
    \E query \in BoundaryQueries, keywords \in BoundaryKeywordLists,
       weight \in {Frac(DefaultWeightTenths, 10)}, limit \in BoundaryLimits :
        \E out \in search_outcome(Self, query, limit) :
            /\ Becomes(Self)
            /\ last' = [raised |-> out.raised, index_layer |-> out.index_layer]
                         @@ HybridCall(query, keywords, weight, limit,
                                hybrid_search(Self, out.ret, keywords, weight, limit),
                                out.ret)
            /\ pre' = Self

NextBoundary ==
    \/ BoundaryStore
    \/ BoundarySearch
    \/ BoundarySemanticSearch
    \/ BoundaryHybridSearch

SpecBoundary == Init /\ [][NextBoundary]_vars

-----------------------------------------------------------------------------
(* The mutating calls when the embedding model or a write of a file fails, *)
(* and the restart of the process                                          *)

\* The bound on the clock for the behaviours with failures.
MaxFailureClock == 2

FailureValues == {PyInt("7")}

\* How _save_index ends. "saved": both files written. "index_open_fails":
\* faiss.write_index cannot open its file, nothing is written.
\* "index_write_fails": it fails after opening, the index file is left
\* truncated. "metadata_open_fails": the index file is written, open(...,'wb')
\* of the metadata file fails. "metadata_dump_fails": the index file is
\* written, pickle.dump fails after open has truncated the metadata file.
PersistOutcomes ==
    {"saved", "index_open_fails", "index_write_fails",
     "metadata_open_fails", "metadata_dump_fails"}

\* np.zeros((1, self.embedding_dim), dtype='float32'), as a row of width
\* one: what _create_embedding would return if it forgot the dimension.
np_zeros_scalar(dim) == <<0>>

\* np.zeros((1, self.embedding_dim), dtype='float32')
np_zeros(dim) == [i \in 1..dim |-> 0]

\* _create_embedding: the vector of the model, or zeros when encode raises.
_create_embedding_or_zeros(text, encode_raises) ==
    IF encode_raises THEN np_zeros(embedding_dim) ELSE Encode(text)

\* _save_index with its except clause: whatever a write raises is logged.
_save_index_outcome(s, outcome) ==
    CASE outcome = "saved" -> _save_index(s)
      [] outcome = "index_open_fails" -> s
      [] outcome = "index_write_fails" -> [s EXCEPT !.index_file = File(<<>>)]
      [] outcome = "metadata_open_fails" ->
             [s EXCEPT !.index_file = File(write_index(s.index))]
      [] outcome = "metadata_dump_fails" ->
             [s EXCEPT !.index_file = File(write_index(s.index)),
                       !.metadata_file = File(<<>>)]

\* store, with the failures it meets.
store_outcome(s, key, value, encode_raises, outcome) ==
    LET text == TextOf(value)
        embedding == _create_embedding_or_zeros(text, encode_raises)
        metadata_item ==
            [key |-> key, text |-> text, value |-> value,
             timestamp |-> s.now, embedding |-> tolist(embedding)]
    IN _save_index_outcome([s EXCEPT !.index = Append(s.index, embedding),
                                     !.metadata = Append(s.metadata, metadata_item),
                                     !.now = s.now + 1], outcome)

\* delete (with its _rebuild_index), with the failure of its save.
delete_outcome(s, key, outcome) ==
    IF Matching(s.metadata, key) = {} THEN [s |-> s, ret |-> FALSE]
    ELSE LET item_index == MinOf(Matching(s.metadata, key))
             remaining == RemoveAt(s.metadata, item_index)
         IN [s |-> _save_index_outcome([s EXCEPT !.metadata = remaining,
                                                 !.index = AddAll(<<>>, remaining)],
                                       outcome),
             ret |-> TRUE]

\* update, with the failures of its delete and of its store.
update_outcome(s, key, value, encode_raises, delete_save, store_save) ==
    LET exists == \E i \in 1..Len(s.metadata) : s.metadata[i].key = key
    IN IF ~exists
       THEN [s |-> store_outcome(s, key, value, encode_raises, store_save), ret |-> TRUE]
       ELSE [s |-> store_outcome(delete_outcome(s, key, delete_save).s, key, value,
                                 encode_raises, store_save),
             ret |-> TRUE]

\* A call with the failures it met: whether encode raised, how its last
\* _save_index ended, and the exception that reached the caller (None: store,
\* delete and update catch every exception).
FailureCall(op, key, value, ret, encode_raises, persist) ==
    [encode_raises |-> encode_raises, persist |-> persist, raised |-> None]
        @@ Call(op, key, value, "", 0, DefaultThreshold, ret, <<>>)

FailureStore ==
    \E key \in Keys, value \in FailureValues, encode_raises \in BOOLEAN,
       outcome \in PersistOutcomes :
        /\ now < MaxFailureClock
        /\ Becomes(store_outcome(Self, key, value, encode_raises, outcome))
        /\ last' = FailureCall("store", key, value, None, encode_raises, outcome)
        /\ pre' = Self

FailureDelete ==
    \E key \in Keys, outcome \in PersistOutcomes :
        /\ Becomes(delete_outcome(Self, key, outcome).s)
        /\ last' = FailureCall("delete", key, None, delete_outcome(Self, key, outcome).ret,
                               FALSE,
                               IF Matching(metadata, key) = {} THEN "none" ELSE outcome)
        /\ pre' = Self

FailureUpdate ==
    \E key \in Keys, value \in FailureValues, encode_raises \in BOOLEAN,
       delete_save \in PersistOutcomes, store_save \in PersistOutcomes :
        /\ now < MaxFailureClock
        /\ Becomes(update_outcome(Self, key, value, encode_raises,
                                  delete_save, store_save).s)
        /\ last' = FailureCall("update", key, value, TRUE, encode_raises, store_save)
        /\ pre' = Self

\* The process ends and a new one constructs the store over the same files.
\* `last` keeps the call before the restart and the state that call began in.
Restart ==
    /\ Becomes(_load_index([Self EXCEPT !.index = <<>>, !.metadata = <<>>]))
    /\ last' = IF last.op = "restart" THEN last
               ELSE [op |-> "restart", mutation |-> last, before |-> pre]
    /\ pre' = IF last.op = "restart" THEN pre ELSE Self

NextFailure ==
    \/ FailureStore
    \/ FailureDelete
    \/ FailureUpdate
    \/ Restart

SpecFailure == Init /\ [][NextFailure]_vars

-----------------------------------------------------------------------------
(* The process stopping between the two writes of _save_index *)

\* The bound on the clock for the behaviours with such stops.
MaxCrashClock == 3

\* _save_index up to the end of faiss.write_index: the process stops before
\* open(self.metadata_file, 'wb').
_save_index_interrupted(s) ==
    [s EXCEPT !.index_file = File(write_index(s.index))]

\* What the next process constructs over the files the stopped one left.
NextProcess(s) == _load_index([s EXCEPT !.index = <<>>, !.metadata = <<>>])

\* store stopped between the two writes of its _save_index, and the next process.
store_interrupted(s, key, value) ==
    LET text == TextOf(value)
        embedding == _create_embedding(text)
        metadata_item ==
            [key |-> key, text |-> text, value |-> value,
             timestamp |-> s.now, embedding |-> tolist(embedding)]
    IN NextProcess(_save_index_interrupted(
           [s EXCEPT !.index = Append(s.index, embedding),
                     !.metadata = Append(s.metadata, metadata_item),
                     !.now = s.now + 1]))

\* delete of a key that is present, stopped between the two writes of the
\* _save_index of its _rebuild_index, and the next process.
delete_interrupted(s, key) ==
    LET item_index == MinOf(Matching(s.metadata, key))
        remaining == RemoveAt(s.metadata, item_index)
    IN NextProcess(_save_index_interrupted(
           [s EXCEPT !.metadata = remaining, !.index = AddAll(<<>>, remaining)]))

CrashStore ==
    \E key \in Keys, value \in FailureValues :
        /\ now < MaxCrashClock
        /\ Becomes(store(Self, key, value))
        /\ last' = Call("store", key, value, "", 0, DefaultThreshold, None, <<>>)
        /\ pre' = Self

StoreInterrupted ==
    \E key \in Keys, value \in FailureValues :
        /\ now < MaxCrashClock
        /\ Becomes(store_interrupted(Self, key, value))
        /\ last' = Call("store_interrupted", key, value, "", 0, DefaultThreshold,
                        None, <<>>)
        /\ pre' = Self

DeleteInterrupted ==
    \E key \in Keys :
        /\ Matching(metadata, key) # {}
        /\ Becomes(delete_interrupted(Self, key))
        /\ last' = Call("delete_interrupted", key, None, "", 0, DefaultThreshold,
                        None, <<>>)
        /\ pre' = Self

NextCrash ==
    \/ CrashStore
    \/ Delete
    \/ Clear
    \/ StoreInterrupted
    \/ DeleteInterrupted

SpecCrash == Init /\ [][NextCrash]_vars

-----------------------------------------------------------------------------
(* search on a store whose index and list have different lengths *)

MisalignedLimits == {1, DefaultLimit}

\* search, with the hits index.search gave it and the positions of
\* self.metadata its loop read.
MisalignedSearch ==
    \E query \in Queries, limit \in MisalignedLimits :
        \E hits \in search_hits(Self, query, limit) :
            /\ Becomes(Self)
            /\ last' = [hits |-> hits, raised |-> None]
                         @@ Call("search", "", None, query, limit, DefaultThreshold,
                                 Collect(metadata, hits), <<>>)
            /\ pre' = Self

NextMisaligned ==
    \/ CrashStore
    \/ StoreInterrupted
    \/ DeleteInterrupted
    \/ MisalignedSearch

SpecMisaligned == Init /\ [][NextMisaligned]_vars

-----------------------------------------------------------------------------
(* A search running between the steps of a store or of a delete: no lock *)

\* The bound on the clock for the behaviours with a search between steps.
MaxConcurrentClock == 2

OthersUnchanged ==
    UNCHANGED <<agent, memory, backup_dir, at_backup, limiter, clock, let_through>>

\* store, lines 86-93: the text and its embedding.
BeginStore ==
    \E key \in Keys, value \in HybridValues :
        /\ tasks["writer"].pc = "idle"
        /\ now < MaxConcurrentClock
        /\ tasks' = [tasks EXCEPT !["writer"] =
                        [IdleTask EXCEPT !.op = "store", !.pc = "index_add",
                                         !.key = key, !.value = value,
                                         !.embedding = _create_embedding(TextOf(value))]]
        /\ last' = Call("store_begins", key, value, "", 0, DefaultThreshold, None, <<>>)
        /\ pre' = Self
        /\ UNCHANGED <<index, metadata, index_file, metadata_file, now>>
        /\ OthersUnchanged

\* store, line 96: self.index.add(embedding)
StoreIndexAdd ==
    /\ tasks["writer"].pc = "index_add"
    /\ index' = Append(index, tasks["writer"].embedding)
    /\ tasks' = [tasks EXCEPT !["writer"].pc = "metadata_append"]
    /\ last' = Call("store_index_add", tasks["writer"].key, tasks["writer"].value,
                    "", 0, DefaultThreshold, None, <<>>)
    /\ pre' = Self
    /\ UNCHANGED <<metadata, index_file, metadata_file, now>>
    /\ OthersUnchanged

\* store, lines 99-107: the metadata item, appended.
StoreMetadataAppend ==
    /\ tasks["writer"].pc = "metadata_append"
    /\ metadata' = Append(metadata,
                       [key |-> tasks["writer"].key,
                        text |-> TextOf(tasks["writer"].value),
                        value |-> tasks["writer"].value,
                        timestamp |-> now,
                        embedding |-> tolist(tasks["writer"].embedding)])
    /\ now' = now + 1
    /\ tasks' = [tasks EXCEPT !["writer"].pc = "save"]
    /\ last' = Call("store_metadata_append", tasks["writer"].key, tasks["writer"].value,
                    "", 0, DefaultThreshold, None, <<>>)
    /\ pre' = Self
    /\ UNCHANGED <<index, index_file, metadata_file>>
    /\ OthersUnchanged

\* store, line 110: self._save_index(), and the call returns.
StoreSave ==
    /\ tasks["writer"].pc = "save"
    /\ index_file' = _save_index(Self).index_file
    /\ metadata_file' = _save_index(Self).metadata_file
    /\ tasks' = [tasks EXCEPT !["writer"] = IdleTask]
    /\ last' = Call("store", tasks["writer"].key, tasks["writer"].value,
                    "", 0, DefaultThreshold, None, <<>>)
    /\ pre' = Self
    /\ UNCHANGED <<index, metadata, now>>
    /\ OthersUnchanged

\* delete, lines 231-238: the scan for the key; False when it is absent.
BeginDelete ==
    \E key \in Keys :
        /\ tasks["writer"].pc = "idle"
        /\ IF Matching(metadata, key) = {}
           THEN /\ UNCHANGED tasks
                /\ last' = Call("delete", key, None, "", 0, DefaultThreshold, FALSE, <<>>)
           ELSE /\ tasks' = [tasks EXCEPT !["writer"] =
                                [IdleTask EXCEPT !.op = "delete", !.pc = "del",
                                     !.key = key,
                                     !.item_index = MinOf(Matching(metadata, key))]]
                /\ last' = Call("delete_begins", key, None, "", 0, DefaultThreshold,
                                None, <<>>)
        /\ pre' = Self
        /\ UNCHANGED <<index, metadata, index_file, metadata_file, now>>
        /\ OthersUnchanged

\* delete, line 241: del self.metadata[item_index]
DeleteRemove ==
    /\ tasks["writer"].pc = "del"
    /\ metadata' = RemoveAt(metadata, tasks["writer"].item_index)
    /\ tasks' = [tasks EXCEPT !["writer"].pc = "rebuild"]
    /\ last' = Call("delete_del", tasks["writer"].key, None, "", 0, DefaultThreshold,
                    None, <<>>)
    /\ pre' = Self
    /\ UNCHANGED <<index, index_file, metadata_file, now>>
    /\ OthersUnchanged

\* delete, line 244: self._rebuild_index(), and the call returns True.
DeleteRebuild ==
    /\ tasks["writer"].pc = "rebuild"
    /\ index' = _rebuild_index(Self).index
    /\ index_file' = _rebuild_index(Self).index_file
    /\ metadata_file' = _rebuild_index(Self).metadata_file
    /\ tasks' = [tasks EXCEPT !["writer"] = IdleTask]
    /\ last' = Call("delete", tasks["writer"].key, None, "", 0, DefaultThreshold,
                    TRUE, <<>>)
    /\ pre' = Self
    /\ UNCHANGED <<metadata, now>>
    /\ OthersUnchanged

\* A search, whole, wherever the store or delete in progress stands; `during`
\* keeps where that is, `hits` what index.search returned.
ConcurrentSearch ==
    \E query \in HybridQueries, limit \in HybridLimits :
        \E hits \in search_hits(Self, query, limit) :
            /\ Becomes(Self)
            /\ last' = [hits |-> hits, during |-> tasks["writer"].pc]
                         @@ Call("search", "", None, query, limit, DefaultThreshold,
                                 Collect(metadata, hits), <<>>)
            /\ pre' = Self

NextConcurrent ==
    \/ BeginStore
    \/ StoreIndexAdd
    \/ StoreMetadataAppend
    \/ StoreSave
    \/ BeginDelete
    \/ DeleteRemove
    \/ DeleteRebuild
    \/ ConcurrentSearch

SpecConcurrent == Init /\ [][NextConcurrent]_vars

-----------------------------------------------------------------------------
(* Two update calls running between each other's steps: no lock *)

\* The bound on the clock for the behaviours of the two updates.
MaxUpdateClock == 4

Updaters == {"first", "second"}

\* A store, whole, before the two updates begin.
UpdateSetup ==
    \E key \in Keys, value \in Values :
        /\ \A t \in Updaters : tasks[t].pc = "idle"
        /\ now + 2 < MaxUpdateClock
        /\ Becomes(store(Self, key, value))
        /\ last' = Call("store", key, value, "", 0, DefaultThreshold, None, <<>>)
        /\ pre' = Self

\* Two callers call update with the same key; `held` is the number of items
\* with that key at that moment.
BeginUpdates ==
    \E key \in Keys, one \in Values, other \in Values :
        /\ \A t \in Updaters : tasks[t].pc = "idle"
        /\ now + 2 <= MaxUpdateClock
        /\ tasks' = [tasks EXCEPT
                        !["first"] = [IdleTask EXCEPT !.op = "update", !.pc = "check",
                                         !.key = key, !.value = one,
                                         !.held = Cardinality(Matching(metadata, key))],
                        !["second"] = [IdleTask EXCEPT !.op = "update", !.pc = "check",
                                         !.key = key, !.value = other,
                                         !.held = Cardinality(Matching(metadata, key))]]
        /\ last' = Call("update_begins", key, None, "", 0, DefaultThreshold, None, <<>>)
        /\ pre' = Self
        /\ UNCHANGED <<index, metadata, index_file, metadata_file, now>>
        /\ OthersUnchanged

\* update, lines 274-282: the scan that sets `exists`.
UpdateCheck ==
    \E t \in Updaters :
        /\ tasks[t].pc = "check"
        /\ LET exists == \E i \in 1..Len(metadata) : metadata[i].key = tasks[t].key
           IN tasks' = [tasks EXCEPT ![t].exists = exists,
                                     ![t].pc = IF exists THEN "delete" ELSE "store"]
        /\ last' = Call("update_check", tasks[t].key, tasks[t].value, "", 0,
                        DefaultThreshold, None, <<>>)
        /\ pre' = Self
        /\ UNCHANGED <<index, metadata, index_file, metadata_file, now>>
        /\ OthersUnchanged

\* update, line 285: await self.delete(key); its return value is not used.
UpdateDelete ==
    \E t \in Updaters :
        /\ tasks[t].pc = "delete"
        /\ index' = delete(Self, tasks[t].key).s.index
        /\ metadata' = delete(Self, tasks[t].key).s.metadata
        /\ index_file' = delete(Self, tasks[t].key).s.index_file
        /\ metadata_file' = delete(Self, tasks[t].key).s.metadata_file
        /\ tasks' = [tasks EXCEPT ![t].pc = "store"]
        /\ last' = Call("update_delete", tasks[t].key, tasks[t].value, "", 0,
                        DefaultThreshold, delete(Self, tasks[t].key).ret, <<>>)
        /\ pre' = Self
        /\ UNCHANGED now
        /\ OthersUnchanged

\* update, lines 281 and 286: await self.store(key, value), and the call
\* returns True.
UpdateStore ==
    \E t \in Updaters :
        /\ tasks[t].pc = "store"
        /\ index' = store(Self, tasks[t].key, tasks[t].value).index
        /\ metadata' = store(Self, tasks[t].key, tasks[t].value).metadata
        /\ index_file' = store(Self, tasks[t].key, tasks[t].value).index_file
        /\ metadata_file' = store(Self, tasks[t].key, tasks[t].value).metadata_file
        /\ now' = store(Self, tasks[t].key, tasks[t].value).now
        /\ tasks' = [tasks EXCEPT ![t].pc = "done"]
        /\ last' = Call("update", tasks[t].key, tasks[t].value, "", 0,
                        DefaultThreshold, TRUE, <<>>)
        /\ pre' = Self
        /\ OthersUnchanged

\* Both callers have their return values.
UpdatesReturn ==
    /\ \A t \in Updaters : tasks[t].pc = "done"
    /\ tasks' = [tasks EXCEPT !["first"] = IdleTask, !["second"] = IdleTask]
    /\ last' = Call("updates_return", "", None, "", 0, DefaultThreshold, None, <<>>)
    /\ pre' = Self
    /\ UNCHANGED <<index, metadata, index_file, metadata_file, now>>
    /\ OthersUnchanged

NextUpdates ==
    \/ UpdateSetup
    \/ BeginUpdates
    \/ UpdateCheck
    \/ UpdateDelete
    \/ UpdateStore
    \/ UpdatesReturn

SpecUpdates == Init /\ [][NextUpdates]_vars

-----------------------------------------------------------------------------
(* backup and restore *)

\* The bound on the clock for the behaviours with backup and restore.
MaxBackupClock == 2

\* shutil.copy2(src, dst) when src exists: dst becomes a copy of src.
copy2(src, dst) == IF src.exists THEN src ELSE dst

\* backup: the directory is made if need be; each of the two files is copied
\* into it if it exists.
backup(s, dir) ==
    [dir |-> [exists |-> TRUE,
              index_file |-> copy2(s.index_file, dir.index_file),
              metadata_file |-> copy2(s.metadata_file, dir.metadata_file)],
     ret |-> TRUE]

\* restore: False when the directory does not exist; otherwise each of the
\* two files is copied back if the directory holds it, and the index is loaded.
restore(s, dir) ==
    IF ~dir.exists THEN [s |-> s, ret |-> FALSE]
    ELSE [s |-> _load_index([s EXCEPT
                    !.index_file = copy2(dir.index_file, s.index_file),
                    !.metadata_file = copy2(dir.metadata_file, s.metadata_file)]),
          ret |-> TRUE]

BackupStore ==
    \E key \in Keys, value \in FailureValues :
        /\ now < MaxBackupClock
        /\ Becomes(store(Self, key, value))
        /\ last' = Call("store", key, value, "", 0, DefaultThreshold, None, <<>>)
        /\ pre' = Self

BackupUpdate ==
    \E key \in Keys, value \in FailureValues :
        /\ now < MaxBackupClock
        /\ Becomes(update(Self, key, value).s)
        /\ last' = Call("update", key, value, "", 0, DefaultThreshold,
                        update(Self, key, value).ret, <<>>)
        /\ pre' = Self

Backup ==
    /\ backup_dir' = backup(Self, backup_dir).dir
    /\ at_backup' = [index |-> index, metadata |-> metadata,
                     index_file |-> index_file, metadata_file |-> metadata_file]
    /\ last' = Call("backup", "", None, "", 0, DefaultThreshold,
                    backup(Self, backup_dir).ret, <<>>)
    /\ pre' = Self
    /\ UNCHANGED <<index, metadata, index_file, metadata_file, now, agent, memory, tasks,
                   limiter, clock, let_through>>

Restore ==
    /\ index' = restore(Self, backup_dir).s.index
    /\ metadata' = restore(Self, backup_dir).s.metadata
    /\ index_file' = restore(Self, backup_dir).s.index_file
    /\ metadata_file' = restore(Self, backup_dir).s.metadata_file
    /\ last' = Call("restore", "", None, "", 0, DefaultThreshold,
                    restore(Self, backup_dir).ret, <<>>)
    /\ pre' = Self
    /\ UNCHANGED <<now, agent, memory, tasks, backup_dir, at_backup,
                   limiter, clock, let_through>>

NextBackup ==
    \/ BackupStore
    \/ BackupUpdate
    \/ Delete
    \/ Clear
    \/ Backup
    \/ Restore

SpecBackup == Init /\ [][NextBackup]_vars

-----------------------------------------------------------------------------
(* RateLimitMiddleware *)

\* The values of calls and period the middleware is made with, and the last
\* reading of the clock.
CallsValues == {1, 2}
Periods == {1, 2}
MaxTime == 3

\* [t for t in times if t > cutoff_time]
Newer(times, cutoff_time) == SelectSeq(times, LAMBDA t : t > cutoff_time)

\* any(t > cutoff_time for t in times)
AnyNewer(times, cutoff_time) == \E i \in 1..Len(times) : times[i] > cutoff_time

\* _is_rate_limited with > for >= in the comparison with calls.
_is_rate_limited_over(l, client_ip, current_time) ==
    LET cutoff_time == current_time - l.period
        cleaned == [ip \in {i \in DOMAIN l.clients : AnyNewer(l.clients[i], cutoff_time)}
                        |-> l.clients[ip]]
        mine == IF client_ip \in DOMAIN cleaned
                THEN Newer(cleaned[client_ip], cutoff_time) ELSE <<>>
        WithMine(times) ==
            [ip \in DOMAIN cleaned \cup {client_ip} |->
                IF ip = client_ip THEN times ELSE cleaned[ip]]
    IN  IF Len(mine) > l.calls
        THEN [clients |-> WithMine(mine), ret |-> TRUE]
        ELSE [clients |-> WithMine(Append(mine, current_time)), ret |-> FALSE]

\* _is_rate_limited: the clients without a time after the cutoff are dropped,
\* the client's list is made if missing and keeps the times after the cutoff;
\* with calls or more of them left the request is limited, otherwise its
\* time is appended.
_is_rate_limited(l, client_ip, current_time) ==
    LET cutoff_time == current_time - l.period
        cleaned == [ip \in {i \in DOMAIN l.clients : AnyNewer(l.clients[i], cutoff_time)}
                        |-> l.clients[ip]]
        mine == IF client_ip \in DOMAIN cleaned
                THEN Newer(cleaned[client_ip], cutoff_time) ELSE <<>>
        WithMine(times) ==
            [ip \in DOMAIN cleaned \cup {client_ip} |->
                IF ip = client_ip THEN times ELSE cleaned[ip]]
    IN  IF Len(mine) >= l.calls
        THEN [clients |-> WithMine(mine), ret |-> TRUE]
        ELSE [clients |-> WithMine(Append(mine, current_time)), ret |-> FALSE]

\* __init__: calls, period and no clients.
RateLimitInit ==
    \E calls \in CallsValues, period \in Periods :
        /\ limiter = None
        /\ limiter' = [calls |-> calls, period |-> period, clients |-> <<>>]
        /\ last' = [op |-> "__init__", calls |-> calls, period |-> period]
        /\ UNCHANGED <<index, metadata, index_file, metadata_file, now, pre, agent,
                       memory, tasks, backup_dir, at_backup, clock, let_through>>

\* dispatch of a request of client_ip when the clock reads current_time, not
\* less than its last reading: 429 if limited, else the request is passed on.
Dispatch ==
    \E client_ip \in ClientIps, current_time \in clock..MaxTime :
        LET r == _is_rate_limited(limiter, client_ip, current_time) IN
        /\ limiter # None
        /\ limiter' = [limiter EXCEPT !.clients = r.clients]
        /\ clock' = current_time
        /\ let_through' =
                IF r.ret THEN let_through
                ELSE [let_through EXCEPT ![client_ip] = Append(@, current_time)]
        /\ last' = [op |-> "dispatch", client_ip |-> client_ip,
                    current_time |-> current_time,
                    status_code |-> IF r.ret THEN 429 ELSE 200]
        /\ UNCHANGED <<index, metadata, index_file, metadata_file, now, pre, agent,
                       memory, tasks, backup_dir, at_backup>>

NextRateLimit ==
    \/ RateLimitInit
    \/ Dispatch

SpecRateLimit == Init /\ [][NextRateLimit]_vars

-----------------------------------------------------------------------------
(* Helpers of the properties *)

AfterCall(op) == last.op = op
FirstMatch(md, key) == MinOf(Matching(md, key))
\* md is old without its element at position p, the rest in the same order.
IsOldWithout(md, old, p) ==
    /\ Len(md) = Len(old) - 1
    /\ \A j \in 1..Len(md) : md[j] = IF j < p THEN old[j] ELSE old[j + 1]
FilesUnchanged == index_file = pre.index_file /\ metadata_file = pre.metadata_file

-----------------------------------------------------------------------------
(* C1 *)

\* C1: after every store, delete and update (and every other call of Spec) the
\* index holds as many vectors as the metadata list holds items.
C1_ParallelLength == Len(index) = Len(metadata)

\* An update of a present key has run on a store of at least two items.
C1_Witness ==
    /\ AfterCall("update")
    /\ Matching(pre.metadata, last.key) # {}
    /\ Len(pre.metadata) >= 2
    /\ Len(index) = Len(pre.index)

-----------------------------------------------------------------------------
(* C2 *)

\* C2: after every call the vector at every index position is the embedding
\* stored in the metadata item at the same position, and a delete that found
\* its key leaves the index that is the old one without the deleted position.
C2_PositionAligned ==
    /\ DOMAIN index = DOMAIN metadata
    /\ \A i \in DOMAIN index : tolist(index[i]) = metadata[i].embedding
    /\ (AfterCall("delete") /\ last.ret = TRUE) =>
           \E p \in DOMAIN pre.metadata :
               /\ IsOldWithout(metadata, pre.metadata, p)
               /\ IsOldWithout(index, pre.index, p)

\* A delete has rebuilt an index of at least two different vectors.
C2_Witness ==
    /\ AfterCall("delete")
    /\ last.ret = TRUE
    /\ Len(index) >= 2
    /\ index[1] # index[2]

-----------------------------------------------------------------------------
(* C3 *)

\* C3 as stated: after store(k, v) in any state, retrieve(k) gives v.
C3_RoundTripAnyState ==
    AfterCall("store") => retrieve(Self, last.key) = last.value

\* C3 amended: after store(k, v) in a state that held no item with key k,
\* retrieve(k) gives v; in a state that held one, retrieve(k) still gives the
\* value of the earliest item with key k, as before the store.
C3_RoundTripFreshKey ==
    AfterCall("store") =>
        IF Matching(pre.metadata, last.key) = {}
        THEN retrieve(Self, last.key) = last.value
        ELSE retrieve(Self, last.key) = pre.metadata[FirstMatch(pre.metadata, last.key)].value

\* A value that is not a str was stored under a new key next to other items.
C3_Witness ==
    /\ AfterCall("store")
    /\ Matching(pre.metadata, last.key) = {}
    /\ pre.metadata # <<>>
    /\ last.value.tag = "int"
    /\ retrieve(Self, last.key) = last.value

-----------------------------------------------------------------------------
(* C4 *)

\* C4: delete(k) in a state that holds no item with key k returns False and
\* leaves the metadata list, the index and both files as they were (so that
\* repeating it meets the same state and does the same).
C4_DeleteAbsentKey ==
    (AfterCall("delete") /\ Matching(pre.metadata, last.key) = {}) =>
        /\ last.ret = FALSE
        /\ metadata = pre.metadata
        /\ index = pre.index
        /\ FilesUnchanged
        /\ delete(Self, last.key) = [s |-> Self, ret |-> FALSE]

\* delete(k) found nothing in a store that holds items under another key.
C4_Witness ==
    /\ AfterCall("delete")
    /\ last.ret = FALSE
    /\ metadata # <<>>
    /\ Matching(pre.metadata, last.key) = {}

-----------------------------------------------------------------------------
(* C5 *)

\* C5: delete(k) in a state with several items of key k removes the earliest
\* of them and nothing else, keeps the order of the others, returns True, and
\* retrieve(k) then gives the value of what was the second item with key k.
C5_DeleteFirstDuplicate ==
    (AfterCall("delete") /\ Cardinality(Matching(pre.metadata, last.key)) >= 2) =>
        LET first == FirstMatch(pre.metadata, last.key)
            second == MinOf(Matching(pre.metadata, last.key) \ {first})
        IN /\ last.ret = TRUE
           /\ IsOldWithout(metadata, pre.metadata, first)
           /\ retrieve(Self, last.key) = pre.metadata[second].value

\* Two items of one key with different values, and a third item, before the delete.
C5_Witness ==
    /\ AfterCall("delete")
    /\ Len(pre.metadata) >= 3
    /\ \E i, j \in Matching(pre.metadata, last.key) :
           i < j /\ pre.metadata[i].value # pre.metadata[j].value
    /\ Len(metadata) = Len(pre.metadata) - 1

-----------------------------------------------------------------------------
(* C6 *)

\* C6 as stated: after update(k, v) in any state that held an item with key
\* k, retrieve(k) gives v.
C6_UpdateThenRetrieveAnyState ==
    (AfterCall("update") /\ Matching(pre.metadata, last.key) # {}) =>
        retrieve(Self, last.key) = last.value

\* C6 amended: after update(k, v) in a state that held exactly one item with
\* key k, retrieve(k) gives v; in a state that held several, retrieve(k)
\* gives the value of what was the second item with key k.
C6_UpdateThenRetrieveSingleKey ==
    (AfterCall("update") /\ Matching(pre.metadata, last.key) # {}) =>
        LET first == FirstMatch(pre.metadata, last.key)
            others == Matching(pre.metadata, last.key) \ {first}
        IN IF others = {}
           THEN retrieve(Self, last.key) = last.value
           ELSE retrieve(Self, last.key) = pre.metadata[MinOf(others)].value

\* The one item of key k held another value, next to an item of another key.
C6_Witness ==
    /\ AfterCall("update")
    /\ Cardinality(Matching(pre.metadata, last.key)) = 1
    /\ pre.metadata[FirstMatch(pre.metadata, last.key)].value # last.value
    /\ Len(pre.metadata) >= 2
    /\ retrieve(Self, last.key) = last.value

-----------------------------------------------------------------------------
(* C7 *)

\* C7: update(k, v) in a state that held an item with key k returns True and
\* leaves as many items as before: the earliest item with key k is gone, the
\* others are in their old order, and the last item is the new one (key k,
\* value v, the text and embedding of v, the time of the call); the index
\* changes the same way.
C7_UpdateIsDeleteThenAppend ==
    (AfterCall("update") /\ Matching(pre.metadata, last.key) # {}) =>
        LET first == FirstMatch(pre.metadata, last.key)
            n == Len(pre.metadata)
        IN /\ last.ret = TRUE
           /\ Len(metadata) = n
           /\ IsOldWithout(SubSeq(metadata, 1, n - 1), pre.metadata, first)
           /\ metadata[n] = [key |-> last.key, text |-> TextOf(last.value),
                             value |-> last.value, timestamp |-> pre.now,
                             embedding |-> tolist(Encode(TextOf(last.value)))]
           /\ Len(index) = n
           /\ IsOldWithout(SubSeq(index, 1, n - 1), pre.index, first)
           /\ index[n] = Encode(TextOf(last.value))

\* The updated item was not the last of at least three.
C7_Witness ==
    /\ AfterCall("update")
    /\ Len(pre.metadata) >= 3
    /\ Matching(pre.metadata, last.key) # {}
    /\ FirstMatch(pre.metadata, last.key) < Len(pre.metadata)
    /\ metadata[Len(metadata)].value = last.value

-----------------------------------------------------------------------------
(* C8 *)

\* C8: update(k, v) in a state that held no item with key k returns True and
\* leaves the fields and files exactly as store(k, v) leaves them: the old
\* items and vectors in place and one more of each at the end.
C8_UpdateAbsentIsStore ==
    (AfterCall("update") /\ Matching(pre.metadata, last.key) = {}) =>
        /\ last.ret = TRUE
        /\ Self = store(pre, last.key, last.value)
        /\ Len(metadata) = Len(pre.metadata) + 1
        /\ SubSeq(metadata, 1, Len(pre.metadata)) = pre.metadata
        /\ metadata[Len(metadata)].key = last.key
        /\ metadata[Len(metadata)].value = last.value
        /\ index = Append(pre.index, Encode(TextOf(last.value)))

\* An update of an absent key on a store that holds items.
C8_Witness ==
    /\ AfterCall("update")
    /\ Matching(pre.metadata, last.key) = {}
    /\ pre.metadata # <<>>
    /\ Len(metadata) = Len(pre.metadata) + 1

-----------------------------------------------------------------------------
(* C9 *)

FracEq(a, b) == a.num * b.den = b.num * a.den

\* C9: every list search returns is in order of non-decreasing distance and of
\* non-increasing similarity_score, and every similarity_score in it is
\* 1 / (1 + distance).
C9_SearchOrdered ==
    AfterCall("search") =>
        /\ \A i, j \in DOMAIN last.ret :
               i < j => /\ last.ret[i].distance <= last.ret[j].distance
                        /\ FracGeq(last.ret[i].similarity_score,
                                   last.ret[j].similarity_score)
        /\ \A i \in DOMAIN last.ret :
               FracEq(last.ret[i].similarity_score, Frac(1, 1 + last.ret[i].distance))

\* A search has returned items at different distances.
C9_Witness ==
    /\ AfterCall("search")
    /\ Len(last.ret) >= 3
    /\ last.ret[1].distance < last.ret[3].distance

-----------------------------------------------------------------------------
(* C10 *)

\* The positions of `results` whose similarity_score is at least threshold.
AtOrAbove(results, threshold) ==
    {i \in DOMAIN results : FracGeq(results[i].similarity_score, threshold)}
\* The j-th smallest element of a set of numbers.
Kth(S, j) == CHOOSE p \in S : Cardinality({x \in S : x <= p}) = j

\* C10: semantic_search(q, t, n) returns the items of what search(q, n)
\* returned whose similarity_score is at least t, each once and in the same
\* order: nothing below t, nothing at or above t left out, the empty list
\* when there is none.
C10_ThresholdFilter ==
    AfterCall("semantic_search") =>
        LET kept == AtOrAbove(last.found, last.threshold)
        IN /\ last.found \in search(pre, last.query, last.limit)
           /\ \A i \in DOMAIN last.ret :
                  FracGeq(last.ret[i].similarity_score, last.threshold)
           /\ Len(last.ret) = Cardinality(kept)
           /\ \A j \in DOMAIN last.ret : last.ret[j] = last.found[Kth(kept, j)]
           /\ (kept = {}) => last.ret = <<>>

\* An item exactly at the threshold was kept and an item below it dropped.
C10_Witness ==
    /\ AfterCall("semantic_search")
    /\ \E i \in DOMAIN last.ret : FracEq(last.ret[i].similarity_score, last.threshold)
    /\ Len(last.ret) < Len(last.found)
    /\ Len(last.ret) >= 1

-----------------------------------------------------------------------------
(* C11 *)

\* x lies in [0, 1]
InUnit(x) == 0 <= x.num /\ x.num <= x.den /\ x.den > 0

\* C11: every item hybrid_search returns, for a semantic_weight w in [0, 1],
\* has semantic_score s and keyword_score k in [0, 1] and
\* hybrid_score = w * s + (1 - w) * k, which lies in [0, 1].
C11_HybridScoreFormulaAndBounds ==
    (AfterCall("hybrid_search") /\ InUnit(last.semantic_weight)) =>
        \A i \in DOMAIN last.ret :
            LET r == last.ret[i]
                w == last.semantic_weight
                s == r.semantic_score
                k == r.keyword_score
            IN /\ InUnit(s)
               /\ InUnit(k)
               /\ InUnit(r.hybrid_score)
               /\ r.hybrid_score.num * (w.den * s.den * k.den)
                    = r.hybrid_score.den
                        * (w.num * s.num * k.den + (w.den - w.num) * k.num * s.den)

\* An item with both scores positive was returned under the default weight.
C11_Witness ==
    /\ AfterCall("hybrid_search")
    /\ last.semantic_weight = Frac(DefaultWeightTenths, 10)
    /\ \E i \in DOMAIN last.ret :
           /\ last.ret[i].semantic_score.num > 0
           /\ last.ret[i].keyword_score.num > 0
           /\ last.ret[i].keyword_score.num < last.ret[i].keyword_score.den

-----------------------------------------------------------------------------
(* C12 *)

-----------------------------------------------------------------------------
(* C13 *)

SearchResultFields ==
    {"key", "text", "value", "timestamp", "similarity_score", "distance"}
HybridScoreFields == {"semantic_score", "keyword_score", "hybrid_score"}

\* C13: every item hybrid_search returns has the fields of a search result
\* and the three scores of hybrid_search.
C13_HybridResultShape ==
    AfterCall("hybrid_search") =>
        \A i \in DOMAIN last.ret :
            (SearchResultFields \cup HybridScoreFields) \subseteq DOMAIN last.ret[i]

-----------------------------------------------------------------------------
(* C14 *)

SearchCalls == {"search", "semantic_search", "hybrid_search"}

\* C14: clear returns True and leaves no item, no vector and neither file,
\* so that get_stats reports total_items = 0 and index_size = 0; and a search,
\* semantic_search or hybrid_search on a store without items returns the
\* empty list and leaves it without items, which is the state the store stays
\* in after clear until something is stored.
C14_ClearThenSearchesEmpty ==
    /\ AfterCall("clear") =>
           /\ last.ret = TRUE
           /\ metadata = <<>>
           /\ index = <<>>
           /\ ~index_file.exists
           /\ ~metadata_file.exists
           /\ get_stats(Self).total_items = 0
           /\ get_stats(Self).index_size = 0
           /\ \A query \in Queries, limit \in Limits : search(Self, query, limit) = {<<>>}
    /\ (last.op \in SearchCalls /\ pre.metadata = <<>> /\ pre.index = <<>>) =>
           /\ last.ret = <<>>
           /\ metadata = <<>>
           /\ index = <<>>

\* A store that held two items was cleared.
C14_Witness ==
    /\ AfterCall("clear")
    /\ Len(pre.metadata) = 2
    /\ pre.index_file.exists
    /\ metadata = <<>>

-----------------------------------------------------------------------------
(* C15 *)

ReadCalls == {"retrieve", "search", "semantic_search", "hybrid_search", "get_stats"}
ScoreFields ==
    {"similarity_score", "distance", "semantic_score", "keyword_score", "hybrid_score"}

\* C15: retrieve, search, semantic_search, hybrid_search and get_stats leave
\* the metadata list (every field of every item), the index and both files as
\* they were, and no stored item carries a score field.
C15_ReadsChangeNothing ==
    /\ last.op \in ReadCalls =>
           /\ metadata = pre.metadata
           /\ index = pre.index
           /\ FilesUnchanged
    /\ \A i \in DOMAIN metadata : DOMAIN metadata[i] \cap ScoreFields = {}

\* A hybrid_search has returned two scored items of a store of two.
C15_Witness ==
    /\ AfterCall("hybrid_search")
    /\ Len(last.ret) = 2
    /\ Len(pre.metadata) = 2
    /\ \E i \in DOMAIN last.ret : last.ret[i].keyword_score.num > 0
    /\ metadata = pre.metadata

-----------------------------------------------------------------------------
(* C16 *)

\* C16: whenever the LLM has answered the request, run returns the answer
\* with error unset and run_stream yields exactly the chunks of the answer,
\* whatever happens while the exchange is recorded in memory.
C16_RecordingNeverChangesDelivery ==
    (agent.pc = "done" /\ agent.llm_answered) =>
        /\ agent.method = "run" =>
               agent.response = AgentResponse(agent.answer, None)
        /\ agent.method = "run_stream" => agent.yielded = agent.answer

-----------------------------------------------------------------------------
(* C17 *)

\* C17: a search, semantic_search or hybrid_search called with an empty query
\* or a negative limit raises an error to its caller and makes no call of
\* index.search.
C17_InvalidInputRejected ==
    (last.op \in SearchCalls /\ (last.query = "" \/ last.limit < 0)) =>
        /\ last.raised # None
        /\ last.index_layer = <<>>

-----------------------------------------------------------------------------
(* C18 *)

\* C18: a store during which the embedding model raises lets no exception
\* reach the caller and appends one vector and one item: the vector is
\* embedding_dim zeros, the item holds the key, the value and that zero
\* embedding, everything before them is as it was, and when index and list
\* had one length before the call they have one length after it, the new
\* vector and the new item standing at the same position.
C18_EmbeddingFailureStoresZeros ==
    (AfterCall("store") /\ last.encode_raises) =>
        /\ last.raised = None
        /\ Len(index) = Len(pre.index) + 1
        /\ Len(metadata) = Len(pre.metadata) + 1
        /\ SubSeq(index, 1, Len(pre.index)) = pre.index
        /\ SubSeq(metadata, 1, Len(pre.metadata)) = pre.metadata
        /\ Len(index[Len(index)]) = embedding_dim
        /\ \A j \in 1..embedding_dim : index[Len(index)][j] = 0
        /\ metadata[Len(metadata)].key = last.key
        /\ metadata[Len(metadata)].value = last.value
        /\ astype_float32(metadata[Len(metadata)].embedding) = index[Len(index)]
        /\ Len(pre.index) = Len(pre.metadata) => Len(index) = Len(metadata)

\* A store whose embedding failed has added a second item to a store of one.
C18_Witness ==
    /\ AfterCall("store")
    /\ last.encode_raises
    /\ Len(pre.metadata) = 1
    /\ Len(pre.index) = 1
    /\ Len(metadata) = 2
    /\ index[2] = <<0, 0>>

-----------------------------------------------------------------------------
(* C19 *)

MutatingCalls == {"store", "delete", "update"}

\* What a new process loads from the files of s.
Reloaded(s) == _load_index([s EXCEPT !.index = <<>>, !.metadata = <<>>])

\* C19: a store, delete or update whose save fails raises nothing and leaves
\* index and list changed in memory; and when the process restarts after such
\* a call, which began in a state that was wholly on disk, the store is back
\* in the state the call began in.
C19_FailedPersistLosesOnlyTheMutation ==
    /\ (last.op \in MutatingCalls /\ last.persist \notin {"saved", "none"}) =>
           /\ last.raised = None
           /\ metadata # pre.metadata
    /\ (/\ last.op = "restart"
        /\ last.mutation.op \in MutatingCalls
        /\ last.mutation.persist \notin {"saved", "none"}
        /\ Reloaded(last.before).index = last.before.index
        /\ Reloaded(last.before).metadata = last.before.metadata) =>
           /\ index = last.before.index
           /\ metadata = last.before.metadata

-----------------------------------------------------------------------------
(* C20 *)

\* C20: when no save has failed, a new store constructed from the files
\* holds the index and the list the store holds in memory; after clear it
\* holds nothing.
C20_FilesHoldTheStore ==
    /\ Reloaded(Self).index = index
    /\ Reloaded(Self).metadata = metadata
    /\ AfterCall("clear") => Reloaded(Self).metadata = <<>> /\ Reloaded(Self).index = <<>>

\* A delete has left two items of three, and the files hold those two.
C20_Witness ==
    /\ AfterCall("delete")
    /\ last.ret = TRUE
    /\ Len(pre.metadata) = 3
    /\ Len(metadata) = 2
    /\ metadata_file.exists
    /\ Len(Reloaded(Self).metadata) = 2

-----------------------------------------------------------------------------
(* C21 *)

InterruptedCalls == {"store_interrupted", "delete_interrupted"}

\* The number of vectors the index file describes (ntotal of its header).
IndexFileCount(file) == IF Len(file.data) < 2 THEN 0 ELSE file.data[2]
\* The number of items the metadata file holds.
MetadataFileCount(file) == IF Len(file.data) < 2 THEN 0 ELSE Len(file.data) - 2

\* The store was aligned and its two files held what it held in memory.
WasOnDisk(s) ==
    /\ s.index_file.exists
    /\ s.metadata_file.exists
    /\ Len(s.index) = Len(s.metadata)
    /\ _load_index([s EXCEPT !.index = <<>>, !.metadata = <<>>]) = s

\* C21 as stated: after a store or delete that stopped between the two
\* writes, whatever the state it began in, the two files describe different
\* counts and the next process runs with an index and a list of different
\* lengths.
C21_InterruptedSaveAlwaysMisaligns ==
    last.op \in InterruptedCalls =>
        /\ IndexFileCount(index_file) # MetadataFileCount(metadata_file)
        /\ Len(index) # Len(metadata)

\* C21: after a store or delete that began in an aligned store whose two files
\* existed and held it, and that stopped between the two writes, the index
\* file and the metadata file describe different counts, the next process
\* loads both as they are, and it runs with an index and a list of different
\* lengths.
C21_InterruptedSaveMisaligns ==
    (last.op \in InterruptedCalls /\ WasOnDisk(pre)) =>
        /\ IndexFileCount(index_file) # MetadataFileCount(metadata_file)
        /\ Len(index) = IndexFileCount(index_file)
        /\ Len(metadata) = MetadataFileCount(metadata_file)
        /\ metadata = pre.metadata
        /\ Len(index) # Len(metadata)

\* A delete stopped between its two writes in a store of two items.
C21_Witness ==
    /\ AfterCall("delete_interrupted")
    /\ WasOnDisk(pre)
    /\ Len(pre.metadata) = 2
    /\ Len(index) = 1
    /\ Len(metadata) = 2

-----------------------------------------------------------------------------
(* C22 *)

\* C22: store(k, v) leaves a list and an index one longer than before, whose
\* earlier positions hold what they held, whether or not an item with key k
\* was there; the new last item has key k and value v, and the new last
\* vector is the embedding of its text.
C22_StoreAppendsOne ==
    AfterCall("store") =>
        /\ Len(metadata) = Len(pre.metadata) + 1
        /\ Len(index) = Len(pre.index) + 1
        /\ \A i \in DOMAIN pre.metadata : metadata[i] = pre.metadata[i]
        /\ \A i \in DOMAIN pre.index : index[i] = pre.index[i]
        /\ metadata[Len(metadata)].key = last.key
        /\ metadata[Len(metadata)].value = last.value
        /\ index[Len(index)] = Encode(metadata[Len(metadata)].text)

\* A store under a key that an earlier item with another value already has.
C22_Witness ==
    /\ AfterCall("store")
    /\ \E i \in Matching(pre.metadata, last.key) : pre.metadata[i].value # last.value
    /\ Len(metadata) = Len(pre.metadata) + 1
    /\ Len(metadata) >= 3

-----------------------------------------------------------------------------
(* C23 *)

\* C23: retrieve(k) returns None when no item of the list has key k, and
\* otherwise the value of the item with key k that was inserted before every
\* other item with key k now in the list (the one with the least timestamp).
C23_RetrieveEarliest ==
    AfterCall("retrieve") =>
        IF \A i \in DOMAIN metadata : metadata[i].key # last.key
        THEN last.ret = None
        ELSE \E i \in DOMAIN metadata :
                 /\ metadata[i].key = last.key
                 /\ \A j \in DOMAIN metadata :
                        (j # i /\ metadata[j].key = last.key) =>
                            metadata[i].timestamp < metadata[j].timestamp
                 /\ last.ret = metadata[i].value

\* A retrieve of a key that two items with different values have, after a
\* delete has removed an earlier item.
C23_Witness ==
    /\ AfterCall("retrieve")
    /\ Cardinality(Matching(metadata, last.key)) >= 2
    /\ \E i, j \in Matching(metadata, last.key) : metadata[i].value # metadata[j].value
    /\ metadata[1].timestamp > 0
    /\ last.ret # None

-----------------------------------------------------------------------------
(* C24 *)

\* The L2 distance of a stored item from the query, by the embedding it holds.
DistanceOf(item, query) == L2(astype_float32(item.embedding), Encode(query))

\* C24: search with a positive limit on an aligned store of n items returns
\* min(limit, n) results; each is a stored item with its true distance, no
\* stored item is returned twice, and no item left out is nearer to the query
\* than an item returned. On a store without items it returns the empty list
\* and makes no call of index.search.
C24_SearchReturnsNearest ==
    (AfterCall("search") /\ last.limit > 0 /\ Len(pre.index) = Len(pre.metadata)) =>
        LET n == Len(pre.metadata)
            returned == {last.ret[i].timestamp : i \in DOMAIN last.ret}
        IN IF n = 0
           THEN last.ret = <<>> /\ last.index_layer = <<>>
           ELSE /\ Len(last.ret) = IF last.limit < n THEN last.limit ELSE n
                /\ Cardinality(returned) = Len(last.ret)
                /\ \A i \in DOMAIN last.ret :
                       \E p \in DOMAIN pre.metadata :
                           /\ pre.metadata[p].timestamp = last.ret[i].timestamp
                           /\ pre.metadata[p].key = last.ret[i].key
                           /\ pre.metadata[p].value = last.ret[i].value
                           /\ last.ret[i].distance = DistanceOf(pre.metadata[p], last.query)
                /\ \A p \in DOMAIN pre.metadata :
                       pre.metadata[p].timestamp \notin returned =>
                           \A i \in DOMAIN last.ret :
                               last.ret[i].distance <= DistanceOf(pre.metadata[p], last.query)

\* A search with limit 1 on a store of two items returned the nearer one, which
\* is the one stored last.
C24_Witness ==
    /\ AfterCall("search")
    /\ last.limit = 1
    /\ Len(pre.metadata) = 2
    /\ Len(last.ret) = 1
    /\ last.ret[1].timestamp = 1
    /\ last.ret[1].distance < DistanceOf(pre.metadata[1], last.query)

-----------------------------------------------------------------------------
(* C25 *)

\* The hits whose idx is a position of the list md, in their order.
RECURSIVE ValidHits(_, _)
ValidHits(hits, md) ==
    IF hits = <<>> THEN <<>>
    ELSE IF Head(hits).idx >= 0 /\ Head(hits).idx < Len(md)
         THEN <<Head(hits)>> \o ValidHits(Tail(hits), md)
         ELSE ValidHits(Tail(hits), md)

\* C25: search lets no exception reach its caller and returns one result for
\* every hit whose idx is a position of the metadata list, in the order of the
\* hits, each holding the item at that position; the hits with another idx
\* give no result. So it is also where the index holds more vectors than the
\* list holds items.
C25_SearchSkipsMissingPositions ==
    AfterCall("search") =>
        LET valid == ValidHits(last.hits, pre.metadata)
        IN /\ last.raised = None
           /\ Len(last.ret) = Len(valid)
           /\ \A i \in DOMAIN valid :
                  /\ last.ret[i].timestamp = pre.metadata[valid[i].idx + 1].timestamp
                  /\ last.ret[i].key = pre.metadata[valid[i].idx + 1].key
                  /\ last.ret[i].distance = valid[i].distance

\* A search on an index of two vectors over a list of one item has skipped
\* the hit without an item and returned the other.
C25_Witness ==
    /\ AfterCall("search")
    /\ Len(pre.index) = 2
    /\ Len(pre.metadata) = 1
    /\ Len(last.hits) = 2
    /\ Len(last.ret) = 1
    /\ \E i \in DOMAIN last.hits : last.hits[i].idx = 1

-----------------------------------------------------------------------------
(* C26 *)

\* The stored items that are semantic candidates of the last hybrid_search or
\* hold one of its keywords, as positions of the list.
Merged ==
    {p \in DOMAIN pre.metadata :
        \/ \E i \in DOMAIN last.found : last.found[i].timestamp = pre.metadata[p].timestamp
        \/ last.keywords # <<>> /\ keyword_matches(pre.metadata[p].text, last.keywords) > 0}

\* The hybrid score of the stored item at position p, from its own scores.
OwnHybridScore(p) ==
    LET item == pre.metadata[p]
        semantic ==
            IF \E i \in DOMAIN last.found : last.found[i].timestamp = item.timestamp
            THEN (CHOOSE r \in {last.found[i] : i \in DOMAIN last.found} :
                      r.timestamp = item.timestamp).similarity_score
            ELSE Frac(0, 1)
        keyword ==
            IF last.keywords # <<>>
            THEN Frac(keyword_matches(item.text, last.keywords), Len(last.keywords))
            ELSE Frac(0, 1)
    IN hybrid_score(last.semantic_weight, semantic, keyword)

\* C26: hybrid_search with a positive limit returns at most limit items in
\* order of non-increasing hybrid_score; they are different stored items, as
\* many as the limit allows of those that are semantic candidates or hold a
\* keyword, and no such item left out has a higher score than one returned.
C26_HybridReturnsTopOfMerge ==
    (AfterCall("hybrid_search") /\ last.limit > 0) =>
        LET returned == {last.ret[i].timestamp : i \in DOMAIN last.ret}
        IN /\ Len(last.ret) <= last.limit
           /\ \A i, j \in DOMAIN last.ret :
                  i < j => FracGeq(last.ret[i].hybrid_score, last.ret[j].hybrid_score)
           /\ Cardinality(returned) = Len(last.ret)
           /\ Len(last.ret) = IF last.limit < Cardinality(Merged) THEN last.limit
                              ELSE Cardinality(Merged)
           /\ \A p \in Merged :
                  pre.metadata[p].timestamp \notin returned =>
                      \A i \in DOMAIN last.ret :
                          FracGeq(last.ret[i].hybrid_score, OwnHybridScore(p))

-----------------------------------------------------------------------------
(* C27 *)

\* C27: every result of a search, also of one that runs between two steps of
\* a store or of a delete, is the item whose stored embedding is the vector
\* the index matched for it.
C27_ReaderNeverMismatched ==
    AfterCall("search") =>
        LET valid == ValidHits(last.hits, pre.metadata)
        IN \A i \in DOMAIN last.ret :
               astype_float32(last.ret[i].embedding) = pre.index[valid[i].idx + 1]

-----------------------------------------------------------------------------
(* C28 *)

\* C28: when two update calls with key k, begun on a store that held one item
\* with key k, have both returned, the store holds one item with key k, its
\* value is the value of one of the two calls, and the index is aligned with
\* the list.
C28_ConcurrentUpdatesLeaveOne ==
    (/\ \A t \in Updaters : tasks[t].pc = "done"
     /\ tasks["first"].held = 1) =>
        LET k == tasks["first"].key
        IN /\ Cardinality(Matching(metadata, k)) = 1
           /\ \A i \in Matching(metadata, k) :
                  metadata[i].value \in {tasks["first"].value, tasks["second"].value}
           /\ Len(index) = Len(metadata)
           /\ \A i \in DOMAIN metadata : tolist(index[i]) = metadata[i].embedding

-----------------------------------------------------------------------------
(* C29 *)

\* C29: after a restore that returned True, whatever was stored, deleted,
\* updated or cleared since the backup that returned True, the list, the
\* index and the two files are what they were when that backup was made,
\* also when the store held nothing then.
C29_RestoreGivesBackupState ==
    (AfterCall("restore") /\ last.ret = TRUE /\ at_backup # None) =>
        /\ metadata = at_backup.metadata
        /\ index = at_backup.index
        /\ index_file = at_backup.index_file
        /\ metadata_file = at_backup.metadata_file

-----------------------------------------------------------------------------
(* C30 *)

\* The number of the times of a sequence that lie in [from, from + length).
CountIn(times, from, length) ==
    Cardinality({i \in 1..Len(times) : times[i] >= from /\ times[i] < from + length})

\* times ends with its last n elements being the sequence tail.
IsSuffix(tail, times) ==
    /\ Len(tail) <= Len(times)
    /\ \A i \in 1..Len(tail) : tail[i] = times[Len(times) - Len(tail) + i]

\* C30: for every client address and every window of length period, at most
\* calls requests of the client were passed on; the times the middleware
\* keeps for a client are times of requests passed on, so a request answered
\* with 429 is not recorded, and it leaves the client's list as the pruning
\* alone leaves it.
C30_AtMostCallsPerWindow ==
    limiter # None =>
        /\ \A ip \in ClientIps : \A from \in 0..MaxTime :
                CountIn(let_through[ip], from, limiter.period) <= limiter.calls
        /\ \A ip \in DOMAIN limiter.clients :
                IsSuffix(limiter.clients[ip], let_through[ip])
        /\ (AfterCall("dispatch") /\ last.status_code = 429) =>
                /\ Len(limiter.clients[last.client_ip]) = limiter.calls
                /\ \A i \in 1..limiter.calls :
                        limiter.clients[last.client_ip][i] > last.current_time - limiter.period

\* A request is answered with 429 after more requests of its client than
\* calls were passed on: earlier ones had left the window, and the client
\* is limited again.
C30_Witness ==
    /\ AfterCall("dispatch")
    /\ last.status_code = 429
    /\ Len(let_through[last.client_ip]) > limiter.calls

====
